---- MODULE Spec2Model ----
(***************************************************************************)
(* A model of stream_zipper: the streaming ZIP / GZIP readers, the split   *)
(* input buffer (InputHandler) they share, and the inflater wrapper around *)
(* the DEFLATE primitive.  Bytes are integers 0..255, byte strings are     *)
(* sequences.  Header parsers work on the real wire layouts.  The DEFLATE  *)
(* primitive (miniz_oxide, an external crate) is replaced by a byte-wise   *)
(* stand-in codec with the same calling contract: see decompress.          *)
(***************************************************************************)
EXTENDS Integers, Sequences, FiniteSets, TLC

VARIABLES
    fx,        \* the stream being decoded (a record of Fixtures)
    fed,       \* number of bytes of fx.bytes handed to read so far
    debug_assertions, \* the build has debug assertions (cfg!(debug_assertions))
    reader,    \* the reader the caller is driving (ZipFile / GZipFile / inflater holder)
    retired,   \* the reader the caller drove before the last NextFile
    pending,   \* unparsed_input of the last return, to be fed again by the caller
    last,      \* the last return of read / feed_input, with what the call did
    rlast,     \* the last return of a read on the retired reader
    out,       \* concatenation of all output slices handed to the caller
    parsedPos, \* number of stream bytes parsers and the inflater have consumed
    errored,   \* an error or a panic has been returned on this run
    intact,    \* no return so far has dropped or repeated a byte of the stream
    dedicated, \* a zip:: / gzip:: reader fed the same calls as a File (NoReader if none)
    dlast,     \* the last return of the dedicated reader
    agree,     \* every return of the File so far equals the dedicated reader's
    iter,      \* what read_with returned on the input the caller's loop started on
    emitted,   \* the output slices of the caller's loop since it started
    stamp,     \* the arguments given to a function of zip/datetime.rs
    decoded,   \* what that function returned
    handler,   \* an InputHandler driven call by call, with what the last call did
    again      \* number of reads made after a terminal return

vars ==
    <<fx, debug_assertions, fed, reader, retired, pending, last, rlast, out, parsedPos,
      errored, intact, dedicated, dlast, agree, iter, emitted, stamp, decoded, handler,
      again>>

(***************************************************************************)
(* Bounds of the model.                                                    *)
(***************************************************************************)
MaxSmallChunk == 3     \* chunks of 0..MaxSmallChunk bytes, plus LargeChunks
MaxAgain == 2          \* reads after a terminal return
MaxSteps == 40         \* parse steps unrolled in one read call
MaxStored == 3         \* bytes a reader has retained when an InputHandler is first made
MaxReads == 2          \* take_storage calls made on one InputHandler run

(***************************************************************************)
(* Program constants.                                                      *)
(***************************************************************************)
StitchBudget == 80
WindowSize == 32768
LocalFixedLen == 30
CentralFixedLen == 46
MemberFixedLen == 10
FooterLen == 8

LOCAL_FILE_HEADER_TAG == <<80, 75, 3, 4>>
DATA_DESCRIPTOR_TAG == <<80, 75, 7, 8>>
CENTRAL_DIR_HEADER_TAG == <<80, 75, 1, 2>>
CENTRAL_DIR_END_TAG == <<80, 75, 5, 6>>
GZIP_TAG == <<31, 139>>
GZIP_DEFLATE == <<8>>

(***************************************************************************)
(* Byte-string helpers.                                                    *)
(***************************************************************************)
Min(a, b) == IF a < b THEN a ELSE b

Take(s, n) == SubSeq(s, 1, Min(n, Len(s)))

Drop(s, n) == SubSeq(s, n + 1, Len(s))

Slice(s, lo, hi) == SubSeq(s, lo + 1, hi)   \* s[lo..hi], zero-based, hi excluded

LE16(n) == <<n % 256, (n \div 256) % 256>>

LE32(n) == <<n % 256, (n \div 256) % 256, (n \div 65536) % 256, (n \div 16777216) % 256>>

LE64(n) == LE32(n) \o <<0, 0, 0, 0>>

U16(s, i) == s[i + 1] + 256 * s[i + 2]      \* le_u16 at zero-based offset i

Bit(b, k) == (b \div (2 ^ k)) % 2

RECURSIVE Rep(_, _)
Rep(b, n) == IF n = 0 THEN <<>> ELSE <<b>> \o Rep(b, n - 1)

RECURSIVE IndexOf(_, _, _)
IndexOf(s, b, i) ==          \* zero-based index of the first b in s at or after i, or -1
    IF i >= Len(s) THEN -1
    ELSE IF s[i + 1] = b THEN i
    ELSE IndexOf(s, b, i + 1)

\* a tag that takes a short input for a mismatch (nom::bytes::complete::tag)
TagCompare_complete(i, t) ==
    IF Len(i) >= Len(t) /\ SubSeq(i, 1, Len(t)) = t THEN "Ok" ELSE "Error"

\* nom::bytes::streaming::tag: compare the common prefix, then the length
TagCompare(i, t) ==
    LET m == Min(Len(i), Len(t)) IN
    IF SubSeq(i, 1, m) # SubSeq(t, 1, m) THEN "Error"
    ELSE IF Len(i) < Len(t) THEN "Incomplete"
    ELSE "Ok"

(***************************************************************************)
(* The DEFLATE primitive.  The stand-in codec: byte EOB ends the stream    *)
(* and writes nothing, byte BAD is an invalid code, byte RUN is a match    *)
(* that repeats the byte written last RunLength times, every other byte is *)
(* a literal that writes itself.  Like the real decoder it writes what it  *)
(* decodes as it goes, stops with NeedsMoreInput when the input runs out   *)
(* (having consumed all of it), with HasMoreOutput when it has a byte to   *)
(* write and the window is full (owed is what is left of the match then),  *)
(* and with Done right after the end-of-stream code.                       *)
(***************************************************************************)
EOB == 0
BAD == 255
RUN == 254

\* the length of the match: it ends exactly at the end of the window when two
\* bytes were written before it
RunLength == WindowSize - 2

Stopped(status, decomp, owed, prev, i, produced) ==
    [status |-> status, in_consumed |-> i, produced |-> produced, decomp |-> decomp,
     owed |-> owed, prev |-> prev]

RECURSIVE decompress_from(_, _, _, _, _, _, _)
decompress_from(decomp, owed, prev, input, i, space, produced) ==
    IF decomp = "done" THEN Stopped("Done", "done", owed, prev, i, produced)
    ELSE IF decomp = "bad" THEN Stopped("Failed", "bad", owed, prev, i, produced)
    ELSE IF owed > 0
    THEN IF Len(produced) >= space
         THEN Stopped("HasMoreOutput", "run", owed, prev, i, produced)
         ELSE decompress_from(decomp, owed - Min(owed, space - Len(produced)), prev,
                              input, i, space,
                              produced \o [k \in 1..Min(owed, space - Len(produced))
                                               |-> prev])
    ELSE IF i >= Len(input) THEN Stopped("NeedsMoreInput", "run", owed, prev, i, produced)
    ELSE IF input[i + 1] = EOB THEN Stopped("Done", "done", owed, prev, i + 1, produced)
    ELSE IF input[i + 1] = BAD THEN Stopped("Failed", "bad", owed, prev, i, produced)
    ELSE IF input[i + 1] = RUN
    THEN decompress_from(decomp, RunLength, prev, input, i + 1, space, produced)
    ELSE IF Len(produced) >= space
    THEN Stopped("HasMoreOutput", "run", owed, prev, i, produced)
    ELSE decompress_from(decomp, owed, input[i + 1], input, i + 1, space,
                         Append(produced, input[i + 1]))

decompress(decomp, owed, prev, input, out_pos) ==
    decompress_from(decomp, owed, prev, input, 0, WindowSize - out_pos, <<>>)

(***************************************************************************)
(* deflate.rs: the inflater (InnerState, consume_input, Stream).           *)
(* `written` is every byte the decompressor has written so far; the window *)
(* content is derived from it (the cursor wraps at WindowSize).  decomp,    *)
(* owed and prev are the state of the DecompressorOxide.                   *)
(***************************************************************************)
NewStream ==
    [out_pos |-> 0, last_out_pos |-> 0, decomp |-> "run", uncomp_size |-> 0,
     comp_size |-> 0, had_output |-> FALSE, written |-> <<>>, owed |-> 0, prev |-> 0]

\* output[p]: the last byte written at window position p, 0 if never written
WinByte(st, p) ==
    LET n == Len(st.written) IN
    IF p >= n THEN 0
    ELSE st.written[p + WindowSize * ((n - 1 - p) \div WindowSize) + 1]

WinSlice(st, lo, hi) == [k \in 1..(hi - lo) |-> WinByte(st, lo + k - 1)]

\* a get_output without the branch for the wrapped cursor
get_output_unwrapped(st) == WinSlice(st, st.last_out_pos, st.out_pos)

get_output(st) ==
    IF st.last_out_pos < st.out_pos
    THEN WinSlice(st, st.last_out_pos, st.out_pos)
    ELSE WinSlice(st, st.last_out_pos, WindowSize)

\* the start of consume_input: a slice reported by the last call is released
release_output(st) ==
    IF st.had_output
    THEN [st EXCEPT !.had_output = FALSE, !.last_out_pos = st.out_pos]
    ELSE st

\* the size accounting without the cursor wrap
advance_unwrapped(st, d) ==
    [st EXCEPT !.decomp = d.decomp, !.owed = d.owed, !.prev = d.prev,
               !.comp_size = st.comp_size + d.in_consumed,
               !.uncomp_size = st.uncomp_size + Len(d.produced),
               !.written = st.written \o d.produced,
               !.out_pos = st.out_pos + Len(d.produced)]

\* an accounting that keeps the counts of the last call only
advance_last_call(st, d) ==
    [st EXCEPT !.decomp = d.decomp, !.owed = d.owed, !.prev = d.prev,
               !.comp_size = d.in_consumed,
               !.uncomp_size = Len(d.produced),
               !.written = st.written \o d.produced,
               !.out_pos = IF st.out_pos + Len(d.produced) = WindowSize
                           THEN 0 ELSE st.out_pos + Len(d.produced)]

\* the size accounting and the cursor wrap after the call of the primitive
advance(st, d) ==
    [st EXCEPT !.decomp = d.decomp, !.owed = d.owed, !.prev = d.prev,
               !.comp_size = st.comp_size + d.in_consumed,
               !.uncomp_size = st.uncomp_size + Len(d.produced),
               !.written = st.written \o d.produced,
               !.out_pos = IF st.out_pos + Len(d.produced) = WindowSize
                           THEN 0 ELSE st.out_pos + Len(d.produced)]

Reported(unparsed_input, st) ==
    [tag |-> "HasOutput", unparsed_input |-> unparsed_input,
     output |-> get_output(st), state |-> st]

Unreported(tag, unparsed_input, st) ==
    [tag |-> tag, unparsed_input |-> unparsed_input, output |-> <<>>, state |-> st]

\* the match on status; st is the state after advance
match_status(d, unparsed_input, st) ==
    CASE d.status = "Done" /\ Len(d.produced) = 0 -> Unreported("Stop", unparsed_input, st)
      [] d.status = "Done" /\ Len(d.produced) > 0 ->
           Reported(unparsed_input, [st EXCEPT !.had_output = TRUE])
      [] d.status = "NeedsMoreInput" -> Unreported("NeedsInput", unparsed_input, st)
      [] d.status = "HasMoreOutput" ->
           Reported(unparsed_input, [st EXCEPT !.had_output = TRUE])
      [] OTHER -> Unreported("Err", unparsed_input, st)

\* a consume_input that hands the whole input back as unparsed
after_decompress_keeping(input, st, d) == match_status(d, input, advance(st, d))

after_decompress(input, st, d) ==
    match_status(d, Drop(input, d.in_consumed), advance(st, d))

decompress_into(input, st) ==
    after_decompress(input, st, decompress(st.decomp, st.owed, st.prev, input, st.out_pos))

consume_input(input, st) == decompress_into(input, release_output(st))

feed_input(st, input) == consume_input(input, st)

\* what inner_iter and try_inner_iter return: the State or the error, the inflater as
\* they leave it, and the slices the callback was called with
IterReturn(tag, unparsed_input, st, chunks) ==
    [tag |-> tag, unparsed_input |-> unparsed_input, state |-> st, chunks |-> chunks]

RECURSIVE inner_iter_loop(_, _, _, _)

\* an inner_iter that returns whatever the first feed_input returned
inner_iter_once(f, chunks, fuel) ==
    IterReturn(f.tag, f.unparsed_input, f.state,
              IF f.tag = "HasOutput" THEN Append(chunks, f.output) ELSE chunks)

\* the match of inner_iter on the state f that feed_input returned (Err is the `?`)
inner_iter_match(f, chunks, fuel) ==
    IF f.tag = "HasOutput"
    THEN inner_iter_loop(f.state, f.unparsed_input, Append(chunks, f.output), fuel - 1)
    ELSE IterReturn(f.tag, f.unparsed_input, f.state, chunks)

inner_iter_loop(st, input, chunks, fuel) ==
    IF fuel = 0 THEN IterReturn("Diverge", input, st, chunks)
    ELSE inner_iter_match(feed_input(st, input), chunks, fuel)

\* Stream::inner_iter
inner_iter(st, input) == inner_iter_loop(st, input, <<>>, MaxSteps)

RECURSIVE try_inner_iter_loop(_, _, _, _, _)

\* the match of try_inner_iter; the callback returns Err on its call number failing
try_inner_iter_match(f, chunks, failing, fuel) ==
    IF f.tag = "HasOutput"
    THEN IF Len(chunks) + 1 = failing
         THEN IterReturn("UserErr", <<>>, f.state, Append(chunks, f.output))
         ELSE try_inner_iter_loop(f.state, f.unparsed_input, Append(chunks, f.output),
                                  failing, fuel - 1)
    ELSE IterReturn(f.tag, f.unparsed_input, f.state, chunks)

try_inner_iter_loop(st, input, chunks, failing, fuel) ==
    IF fuel = 0 THEN IterReturn("Diverge", input, st, chunks)
    ELSE try_inner_iter_match(feed_input(st, input), chunks, failing, fuel)

\* Stream::try_inner_iter with a callback that fails on call number failing (0: never)
try_inner_iter(st, input, failing) == try_inner_iter_loop(st, input, <<>>, failing, MaxSteps)

(***************************************************************************)
(* input_helper.rs: Input (Long / Short) and InputHandler.                 *)
(***************************************************************************)
Long(bytes) == [long |-> TRUE, bytes |-> bytes]

Short(bytes) == [long |-> FALSE, bytes |-> bytes]

extend_input(ih) ==
    LET input_stored_consumed == Len(ih.storage) - ih.orig_stored + ih.input_consumed
        upper_bound == Min(input_stored_consumed + StitchBudget, Len(ih.orig_input))
        extension == Slice(ih.orig_input, input_stored_consumed, upper_bound)
        was_empty == Len(ih.storage) = 0
    IN  [ih |-> [ih EXCEPT !.storage = ih.storage \o extension],
         ret |-> IF was_empty THEN 0 ELSE Len(extension)]

\* a take_storage that does not extend the storage it took
take_storage_unextended(reader_storage, orig_input) ==
    [orig_stored |-> Len(reader_storage), input_consumed |-> 0,
     storage |-> reader_storage, orig_input |-> orig_input]

take_storage(reader_storage, orig_input) ==
    LET ihandler == [orig_stored |-> Len(reader_storage), input_consumed |-> 0,
                     storage |-> reader_storage, orig_input |-> orig_input]
    IN  IF ihandler.orig_stored > 0 THEN extend_input(ihandler).ih ELSE ihandler

\* return_storage: the swap hands the stitch buffer to the reader
return_storage(ih, reader_storage) ==
    [ih |-> [ih EXCEPT !.storage = reader_storage], reader_storage |-> ih.storage]

get_unparsed(ih) ==
    IF Len(ih.storage) > 0 THEN Short(ih.storage) ELSE Long(ih.orig_input)

\* a consumed that keeps the stitch buffer and its view
consumed_stitched(ih, bytes, debug) ==
    [ok |-> TRUE, ih |-> ih,
     view |-> IF Len(ih.storage) > 0 THEN Short(ih.storage)
              ELSE Long(Drop(ih.orig_input, ih.input_consumed))]

\* a consumed that counts the stored bytes as bytes of the input
consumed_whole(ih, bytes, debug) ==
    IF bytes = 0
    THEN [ok |-> TRUE, ih |-> ih,
          view |-> IF Len(ih.storage) > 0 THEN Short(ih.storage)
                   ELSE Long(Drop(ih.orig_input, ih.input_consumed))]
    ELSE [ok |-> TRUE,
          ih |-> [ih EXCEPT !.input_consumed = ih.input_consumed + bytes,
                            !.storage = <<>>, !.orig_stored = 0],
          view |-> Long(Drop(ih.orig_input, ih.input_consumed + bytes))]

\* consumed: ok = FALSE is a panic.  debug_assert!(orig_stored < bytes) is compiled
\* only into builds with debug assertions; without it bytes < orig_stored wraps
\* input_consumed past the end of orig_input and the slice that follows panics.
consumed(ih, bytes, debug) ==
    IF bytes = 0
    THEN [ok |-> TRUE, ih |-> ih,
          view |-> IF Len(ih.storage) > 0 THEN Short(ih.storage)
                   ELSE Long(Drop(ih.orig_input, ih.input_consumed))]
    ELSE IF (debug /\ ~(ih.orig_stored < bytes)) \/ bytes < ih.orig_stored
    THEN [ok |-> FALSE, ih |-> ih, view |-> Short(ih.storage)]
    ELSE LET ih2 == [ih EXCEPT !.input_consumed = ih.input_consumed + bytes - ih.orig_stored,
                               !.storage = <<>>,
                               !.orig_stored = 0]
         IN  [ok |-> TRUE, ih |-> ih2, view |-> Long(Drop(ih.orig_input, ih2.input_consumed))]

(***************************************************************************)
(* zip/datetime.rs: the date and time checks a local file header must pass. *)
(***************************************************************************)
DAYS_IN_MONTH == <<31, 28, 31, 30, 31, 30, 31, 31, 30, 31, 30, 31>>

DAY_OF_YEAR == <<0, 31, 59, 90, 120, 151, 181, 212, 243, 273, 304, 334>>

\* a days_since_msdos_epoch that takes every fourth year for a leap year
days_since_msdos_epoch_julian(msdos_year, month1, day1) ==
    IF msdos_year >= 128 \/ month1 = 0 \/ month1 > 12 \/ day1 = 0
    THEN [ok |-> FALSE, v |-> 0]
    ELSE IF day1 - 1 >= DAYS_IN_MONTH[month1]
                            + (IF (msdos_year % 4) = 0 /\ month1 = 2 /\ day1 = 29
                               THEN 1 ELSE 0)
    THEN [ok |-> FALSE, v |-> 0]
    ELSE [ok |-> TRUE,
          v |-> msdos_year * 365 + DAY_OF_YEAR[month1] + day1 - 1 + (msdos_year \div 4)
                    + (IF (msdos_year % 4) > 0 \/ month1 > 2 THEN 1 ELSE 0)]

days_since_msdos_epoch(msdos_year, month1, day1) ==
    IF msdos_year >= 128 \/ month1 = 0 \/ month1 > 12 \/ day1 = 0
    THEN [ok |-> FALSE, v |-> 0]
    ELSE LET month == month1 - 1
             day == day1 - 1
             year == 1980 + msdos_year
             is_leap_day == (year % 4) = 0 /\ month = 1 /\ day = 28
             leap_month_correction == IF is_leap_day THEN 1 ELSE 0
             is_after_leap == (year % 4) > 0 \/ month > 1
             after_leap_correction == IF is_after_leap THEN 1 ELSE 0
             is_after_skip == year > 2100 \/ (year = 2100 /\ is_after_leap)
             skip_leap_correction == IF is_after_skip THEN 1 ELSE 0
             leap_days_since_epoch ==
                 (msdos_year \div 4) + after_leap_correction - skip_leap_correction
             non_leap_days_since_epoch == msdos_year * 365 + DAY_OF_YEAR[month + 1] + day
         IN  IF is_leap_day /\ year = 2100 THEN [ok |-> FALSE, v |-> 0]
             ELSE IF day >= DAYS_IN_MONTH[month + 1] + leap_month_correction
             THEN [ok |-> FALSE, v |-> 0]
             ELSE [ok |-> TRUE, v |-> non_leap_days_since_epoch + leap_days_since_epoch]

seconds_since_midnight(hours, minutes, seconds) ==
    IF hours >= 24 \/ minutes >= 60 \/ seconds >= 60
    THEN [ok |-> FALSE, v |-> 0]
    ELSE [ok |-> TRUE, v |-> seconds + (minutes + hours * 60) * 60]

\* a parse_msdos_time_bits that takes the seconds field for seconds
parse_msdos_time_bits_plain(w) ==
    [hours |-> w \div 2048, minutes |-> (w \div 32) % 64, seconds |-> w % 32]

parse_msdos_time_bits(w) ==
    [hours |-> w \div 2048, minutes |-> (w \div 32) % 64, seconds |-> (w % 32) * 2]

parse_msdos_date_bits(w) ==
    [years |-> w \div 512, months |-> (w \div 32) % 16, days |-> w % 32]

\* the days of EPOCH_DIFF, the difference between the UNIX and the MS-DOS epoch
EPOCH_DIFF == 3652

\* what a function of datetime.rs returns: res is Ok, Err (of a Result), Incomplete
\* or Failure (nom::Err); a SystemTime is days and secs since UNIX_EPOCH, the secs
\* always less than a day's
Decoded(res, err, days, secs) ==
    [done |-> TRUE, res |-> res, err |-> err, days |-> days, secs |-> secs]

\* the end of parse_msdos_datetime; s is what seconds_since_midnight returned, d
\* what days_since_msdos_epoch returned
datetime_of(s, d) ==
    IF ~s.ok THEN Decoded("Failure", "InvalidDateOrTime", 0, 0)
    ELSE IF ~d.ok THEN Decoded("Failure", "InvalidDateOrTime", 0, 0)
    ELSE Decoded("Ok", "", EPOCH_DIFF + d.v, s.v)

\* parse_msdos_datetime after pair(le_u16, le_u16); t and d are the decoded words
datetime_of_bits(t, d) ==
    datetime_of(seconds_since_midnight(t.hours, t.minutes, t.seconds),
                days_since_msdos_epoch(d.years, d.months, d.days))

parse_msdos_datetime(i) ==
    IF Len(i) < 4 THEN Decoded("Incomplete", "", 0, 0)
    ELSE datetime_of_bits(parse_msdos_time_bits(U16(i, 0)),
                          parse_msdos_date_bits(U16(i, 2)))

\* parse_msdos_datetime on the four bytes at zero-based offset off (all present)
msdos_datetime_ok(i, off) ==
    LET t == parse_msdos_time_bits(U16(i, off))
        d == parse_msdos_date_bits(U16(i, off + 2))
    IN  /\ seconds_since_midnight(t.hours, t.minutes, t.seconds).ok
        /\ days_since_msdos_epoch(d.years, d.months, d.days).ok

(***************************************************************************)
(* zip/headers.rs: the ZIP header parsers.  A parser returns               *)
(* [res, n, ...]: res is Ok (n bytes consumed), Incomplete, Error or       *)
(* Failure (nom::Err), err the ZipError of an Error or Failure.            *)
(***************************************************************************)
KnownCompressionMethods == (0..19) \cup {97, 98}

KnownHeaderIds ==
    {1, 7, 8, 9, 10, 12, 13, 14, 15, 20, 21, 22, 23, 24, 25, 101, 102, 18064, 1992,
     9733, 9989, 10245, 13133, 17217, 17491, 18180, 18191, 19270, 19521, 19785, 20300,
     21334, 21589, 21838, 22613, 25461, 25922, 30062, 30805, 41504, 64842}

NoHeader ==
    [present |-> FALSE, filename |-> <<>>, has_filename |-> FALSE,
     compressed_size |-> <<0, 0, 0, 0>>, uncompressed_size |-> <<0, 0, 0, 0>>,
     deferred_sizes |-> FALSE, is_zip64 |-> FALSE, extra_ids |-> <<>>]

PFail(res, err) == [res |-> res, err |-> err, n |-> 0, header |-> NoHeader]

\* parse_one_extra_field under many0!: the result of many0 on the slice i
RECURSIVE many0_extra_fields(_, _)
many0_extra_fields(i, ids) ==
    IF Len(i) < 2 THEN [res |-> "Ok", ids |-> ids]                 \* Error ends many0
    ELSE IF U16(i, 0) \notin KnownHeaderIds THEN [res |-> "Failure", ids |-> ids]
    ELSE IF Len(i) < 4 THEN [res |-> "Ok", ids |-> ids]            \* Error ends many0
    ELSE IF Len(i) < 4 + U16(i, 2) THEN [res |-> "Incomplete", ids |-> ids]
    ELSE many0_extra_fields(Drop(i, 4 + U16(i, 2)), Append(ids, U16(i, 0)))

\* parse_extra_fields on exactly the len bytes of the block (length_value!):
\* an Incomplete inside the block becomes an Error
parse_extra_fields(block) ==
    LET r == many0_extra_fields(block, <<>>) IN
    IF r.res = "Incomplete" THEN [res |-> "Error", ids |-> r.ids] ELSE r

ZIP64_SIZE == <<255, 255, 255, 255>>

LocalFileHeader_parse(i) ==
    LET t == TagCompare(i, LOCAL_FILE_HEADER_TAG)
        fname_len == U16(i, 26)
        extra_field_len == U16(i, 28)
        total == LocalFixedLen + fname_len + extra_field_len
        extra == parse_extra_fields(Slice(i, LocalFixedLen + fname_len, total))
        csize == Slice(i, 18, 22)
        usize == Slice(i, 22, 26)
    IN  IF t = "Error" THEN PFail("Error", "NotLocalFileHeader")
        ELSE IF t = "Incomplete" THEN PFail("Incomplete", "")
        ELSE IF Len(i) < 10 THEN PFail("Incomplete", "")
        ELSE IF U16(i, 8) \notin KnownCompressionMethods
        THEN PFail("Failure", "InvalidCompressionMethod")
        ELSE IF Len(i) < 14 THEN PFail("Incomplete", "")
        ELSE IF ~msdos_datetime_ok(i, 10) THEN PFail("Failure", "InvalidDateOrTime")
        ELSE IF Len(i) < LocalFixedLen THEN PFail("Incomplete", "")
        ELSE IF Len(i) < LocalFixedLen + fname_len THEN PFail("Incomplete", "")
        ELSE IF Len(i) < total THEN PFail("Incomplete", "")
        ELSE IF extra.res # "Ok" THEN PFail(extra.res, "InvalidLocalFileHeader")
        ELSE [res |-> "Ok", err |-> "", n |-> total,
              header |-> [present |-> TRUE,
                          filename |-> Slice(i, LocalFixedLen, LocalFixedLen + fname_len),
                          has_filename |-> TRUE,
                          compressed_size |-> csize,
                          uncompressed_size |-> usize,
                          deferred_sizes |-> Bit(i[7], 3) = 1,
                          is_zip64 |-> (csize = ZIP64_SIZE \/ usize = ZIP64_SIZE),
                          extra_ids |-> extra.ids]]

\* DataDescriptor::parse_zip (size_len 4) and parse_zip64 (size_len 8)
DataDescriptor_parse(i, size_len) ==
    LET t == TagCompare(i, DATA_DESCRIPTOR_TAG)
        off == IF t = "Ok" THEN 4 ELSE 0
        n == off + 4 + 2 * size_len
    IN  IF t = "Incomplete" \/ Len(i) < n
        THEN [res |-> "Incomplete", n |-> 0, tag |-> FALSE,
              compressed_size |-> <<>>, uncompressed_size |-> <<>>]
        ELSE [res |-> "Ok", n |-> n, tag |-> (t = "Ok"),
              compressed_size |-> Slice(i, off + 4, off + 4 + size_len),
              uncompressed_size |-> Slice(i, off + 4 + size_len, n)]

DataDescriptor_parse_zip(i) == DataDescriptor_parse(i, 4)

DataDescriptor_parse_zip64(i) == DataDescriptor_parse(i, 8)

CentralDirHeader_parse(i) ==
    LET t == TagCompare(i, CENTRAL_DIR_HEADER_TAG)
        fname_len == U16(i, 28)
        extra_field_len == U16(i, 30)
        fcomment_len == U16(i, 32)
        extra_end == CentralFixedLen + fname_len + extra_field_len
        extra == parse_extra_fields(Slice(i, CentralFixedLen + fname_len, extra_end))
    IN  IF t = "Error" THEN PFail("Error", "NotCentralDirHeader")
        ELSE IF t = "Incomplete" THEN PFail("Incomplete", "")
        ELSE IF Len(i) < 6 THEN PFail("Incomplete", "")
        ELSE IF i[6] > 19 THEN PFail("Failure", "InvalidVersionMadeBy")
        ELSE IF Len(i) < 12 THEN PFail("Incomplete", "")
        ELSE IF U16(i, 10) \notin KnownCompressionMethods
        THEN PFail("Failure", "InvalidCompressionMethod")
        ELSE IF Len(i) < CentralFixedLen THEN PFail("Incomplete", "")
        ELSE IF Len(i) < extra_end THEN PFail("Incomplete", "")
        ELSE IF extra.res # "Ok" THEN PFail(extra.res, "InvalidHeaderId")
        ELSE IF Len(i) < extra_end + fcomment_len THEN PFail("Incomplete", "")
        ELSE [res |-> "Ok", err |-> "", n |-> extra_end + fcomment_len, header |-> NoHeader]

(***************************************************************************)
(* gzip/headers.rs: the GZIP member header and footer parsers.             *)
(***************************************************************************)
\* cond(flag, extra_data) at offset off: the offset after it, or -1 if Incomplete
gz_after_extra(i, flag, off) ==
    IF ~flag THEN off
    ELSE IF Len(i) < off + 2 THEN -1
    ELSE IF Len(i) < off + 2 + U16(i, off) THEN -1
    ELSE off + 2 + U16(i, off)

\* cond(flag, zero_terminated) at offset off: the offset after the NUL, or -1
gz_after_zero_terminated(i, flag, off) ==
    IF off < 0 \/ ~flag THEN off
    ELSE IF IndexOf(i, 0, off) < 0 THEN -1
    ELSE IndexOf(i, 0, off) + 1

gz_after_crc(i, flag, off) ==
    IF off < 0 \/ ~flag THEN off
    ELSE IF Len(i) < off + 2 THEN -1
    ELSE off + 2

MemberHeader_parse(i) ==
    LET t1 == TagCompare(i, GZIP_TAG)
        t2 == TagCompare(Drop(i, 2), GZIP_DEFLATE)
        flags == i[4]
        a1 == gz_after_extra(i, Bit(flags, 2) = 1, MemberFixedLen)
        a2 == gz_after_zero_terminated(i, Bit(flags, 3) = 1, a1)
        a3 == gz_after_zero_terminated(i, Bit(flags, 4) = 1, a2)
        a4 == gz_after_crc(i, Bit(flags, 1) = 1, a3)
    IN  IF t1 = "Error" THEN PFail("Error", "InvalidMemberHeader")
        ELSE IF t1 = "Incomplete" THEN PFail("Incomplete", "")
        ELSE IF t2 = "Error" THEN PFail("Error", "InvalidMemberHeader")
        ELSE IF t2 = "Incomplete" THEN PFail("Incomplete", "")
        ELSE IF Len(i) < MemberFixedLen THEN PFail("Incomplete", "")
        ELSE IF a4 < 0 THEN PFail("Incomplete", "")
        ELSE [res |-> "Ok", err |-> "", n |-> a4,
              header |-> [NoHeader EXCEPT
                              !.present = TRUE,
                              !.has_filename = (Bit(flags, 3) = 1),
                              !.filename = IF Bit(flags, 3) = 1
                                           THEN Slice(i, a1, a2 - 1) ELSE <<>>]]

parse_footer(i) ==
    IF Len(i) < FooterLen THEN [res |-> "Incomplete", n |-> 0]
    ELSE [res |-> "Ok", n |-> FooterLen]

(***************************************************************************)
(* The readers.  A reader is [kind, state, header, comp_size, uncomp_size,  *)
(* unparsed, inflater]; header and the two sizes are the payload of the    *)
(* InternalState variant.  A parse step returns                            *)
(*   [n, r, res, err, next_file, parsed]                                   *)
(* n the bytes_consumed it reports, r the reader with its new state, res   *)
(* the ParseResult, parsed the bytes of n a parser or the inflater really  *)
(* took (n less what was only moved into the next reader or dropped).      *)
(***************************************************************************)
NewReader(kind) ==
    [kind |-> kind, state |-> "Init", header |-> NoHeader, comp_size |-> 0,
     uncomp_size |-> 0, unparsed |-> <<>>, inflater |-> NewStream]

NoReader == NewReader("none")

zip_start_stream == NewReader("zip")

gzip_start_stream == NewReader("gzip")

StepOf(n, r, res, err) ==
    [n |-> n, r |-> r, res |-> res, err |-> err, next_file |-> NoReader, parsed |-> n]

\* the match on the parser's result in ZipFile::parse_header and GZipFile::parse_header
header_step(r, p, err) ==
    IF p.res = "Ok"
    THEN StepOf(p.n, [r EXCEPT !.state = "HeaderParsed", !.header = p.header], "Continue", "")
    ELSE IF p.res = "Incomplete"
    THEN StepOf(0, [r EXCEPT !.state = "Init"], "NeedsInput", "")
    ELSE StepOf(0, [r EXCEPT !.state = "Error"], "Error", err)

\* ZipFile::parse_header
zip_parse_header(r, input) ==
    header_step(r, LocalFileHeader_parse(input), "InvalidLocalFileHeader")

ZERO_SIZE == <<0, 0, 0, 0>>

\* a detect_empty_stream that never finds an empty stream
detect_empty_stream_blind(r, input) == [hit |-> FALSE, step |-> StepOf(0, r, "Continue", "")]

\* ZipFile::detect_empty_stream: hit = FALSE is the Ok(state) return
detect_empty_stream(r, input) ==
    IF /\ r.header.compressed_size = ZERO_SIZE
       /\ r.header.uncompressed_size = ZERO_SIZE
       /\ ~r.header.deferred_sizes
    THEN IF Len(input) < 4
         THEN [hit |-> TRUE, step |-> StepOf(0, r, "NeedsInput", "")]
         ELSE IF Take(input, 4) = LOCAL_FILE_HEADER_TAG
         THEN [hit |-> TRUE,
               step |-> StepOf(0, [r EXCEPT !.state = "Inflated", !.comp_size = 0,
                                            !.uncomp_size = 0], "Continue", "")]
         ELSE [hit |-> FALSE, step |-> StepOf(0, r, "Continue", "")]
    ELSE [hit |-> FALSE, step |-> StepOf(0, r, "Continue", "")]

\* an inflate that takes the state on to Inflated when the inflater has output
feed_step_advancing(r, n, f) ==
    CASE f.tag = "NeedsInput" -> StepOf(n, [r EXCEPT !.inflater = f.state], "Continue", "")
      [] f.tag \in {"HasOutput", "Stop"} ->
           StepOf(n, [r EXCEPT !.inflater = f.state, !.state = "Inflated",
                               !.comp_size = f.state.comp_size,
                               !.uncomp_size = f.state.uncomp_size],
                  IF f.tag = "HasOutput" THEN "Output" ELSE "Continue", "")
      [] OTHER -> StepOf(0, [r EXCEPT !.inflater = f.state], "Error", "InvalidDeflateStream")

\* the match on self.inflater.feed_input(*input) of ZipFile::inflate and
\* GZipFile::inflate; f is what feed_input returned
feed_step(r, n, f) ==
    CASE f.tag = "NeedsInput" -> StepOf(n, [r EXCEPT !.inflater = f.state], "Continue", "")
      [] f.tag = "HasOutput" -> StepOf(n, [r EXCEPT !.inflater = f.state], "Output", "")
      [] f.tag = "Stop" ->
           StepOf(n, [r EXCEPT !.inflater = f.state, !.state = "Inflated",
                               !.comp_size = f.state.comp_size,
                               !.uncomp_size = f.state.uncomp_size], "Continue", "")
      [] OTHER -> StepOf(0, [r EXCEPT !.inflater = f.state], "Error", "InvalidDeflateStream")

fed_step(r, input, f) == feed_step(r, Len(input) - Len(f.unparsed_input), f)

zip_feed(r, input) == fed_step(r, input, feed_input(r.inflater, input))

\* ZipFile::inflate
zip_inflate(r, input) ==
    IF detect_empty_stream(r, input).hit
    THEN detect_empty_stream(r, input).step
    ELSE zip_feed(r, input)

\* a parse_descriptor that never requires the descriptor to exist
descriptor_step_lenient(r, desc) ==
    IF desc.res = "Incomplete" THEN StepOf(0, r, "NeedsInput", "")
    ELSE IF /\ desc.uncompressed_size = (IF r.header.is_zip64 THEN LE64(r.uncomp_size)
                                          ELSE LE32(r.uncomp_size))
            /\ desc.compressed_size = (IF r.header.is_zip64 THEN LE64(r.comp_size)
                                        ELSE LE32(r.comp_size))
    THEN StepOf(desc.n, [r EXCEPT !.state = "DescriptorParsed"], "Continue", "")
    ELSE StepOf(0, [r EXCEPT !.state = "DescriptorParsed"], "Continue", "")

\* `as u64` of a le_u32 or le_u64 field: the eight little-endian bytes of the value
as_u64(field) == field \o [k \in 1..(8 - Len(field)) |-> 0]

\* an actual size that is compared as it is on both paths
actual_size_unreduced(is_zip64, size) == size

\* actual_uncomp_size / actual_comp_size: size is the u64 of the reader's usize, as its
\* eight little-endian bytes; x % (u32::MAX as u64 + 1) keeps the low four
actual_size(is_zip64, size) ==
    IF is_zip64 THEN size ELSE as_u64(Take(size, 4))

\* data_matches of parse_descriptor
data_matches(is_zip64, uncomp_size, comp_size, desc) ==
    /\ actual_size(is_zip64, uncomp_size) = as_u64(desc.uncompressed_size)
    /\ actual_size(is_zip64, comp_size) = as_u64(desc.compressed_size)

\* a parse_descriptor that stays in Inflated when there is no descriptor to take
descriptor_step_stalling(r, desc) ==
    IF desc.res = "Incomplete" THEN StepOf(0, r, "NeedsInput", "")
    ELSE IF data_matches(r.header.is_zip64, LE64(r.uncomp_size), LE64(r.comp_size), desc)
    THEN StepOf(desc.n, [r EXCEPT !.state = "DescriptorParsed"], "Continue", "")
    ELSE IF desc.tag \/ r.header.deferred_sizes
    THEN StepOf(0, [r EXCEPT !.state = "Error"], "Error", "InvalidDataDescriptor")
    ELSE StepOf(0, r, "Continue", "")

\* the comparison and the match of ZipFile::parse_descriptor; desc is the parsed descriptor
descriptor_step(r, desc) ==
    LET desc_must_exist == desc.tag \/ r.header.deferred_sizes
    IN  IF desc.res = "Incomplete" THEN StepOf(0, r, "NeedsInput", "")
        ELSE IF data_matches(r.header.is_zip64, LE64(r.uncomp_size), LE64(r.comp_size), desc)
        THEN StepOf(desc.n, [r EXCEPT !.state = "DescriptorParsed"], "Continue", "")
        ELSE IF desc_must_exist
        THEN StepOf(0, [r EXCEPT !.state = "Error"], "Error", "InvalidDataDescriptor")
        ELSE StepOf(0, [r EXCEPT !.state = "DescriptorParsed"], "Continue", "")

\* ZipFile::parse_descriptor
\* a descriptor read in the 32-bit wire format whatever the header says
DataDescriptor_narrow(is_zip64, input) == DataDescriptor_parse_zip(input)

\* desc_result of parse_descriptor: the wire format follows header.is_zip64
DataDescriptor_for(is_zip64, input) ==
    IF is_zip64 THEN DataDescriptor_parse_zip64(input)
    ELSE DataDescriptor_parse_zip(input)

zip_parse_descriptor(r, input) ==
    descriptor_step(r, DataDescriptor_for(r.header.is_zip64, input))

Peeked(res, err, n, parsed, next_file) ==
    [res |-> res, err |-> err, n |-> n, parsed |-> parsed, next_file |-> next_file]

\* the match of zip::peek_stream; p is what LocalFileHeader::parse returned
zip_peeked(input, p) ==
    IF p.res = "Ok"
    THEN Peeked("Ok", "", p.n, p.n,
                [zip_start_stream EXCEPT !.state = "HeaderParsed", !.header = p.header])
    ELSE IF p.res = "Incomplete"
    THEN Peeked("Ok", "", Len(input), 0, [zip_start_stream EXCEPT !.unparsed = input])
    ELSE IF p.res = "Error" /\ p.err = "NotLocalFileHeader"
    THEN Peeked("Err", "NotLocalFileHeader", 0, 0, NoReader)
    ELSE Peeked("Err", "InvalidLocalFileHeader", 0, 0, NoReader)

\* zip::peek_stream
zip_peek_stream(input) == zip_peeked(input, LocalFileHeader_parse(input))

NextFileStep(n, r, next_file, parsed) ==
    [n |-> n, r |-> [r EXCEPT !.state = "End"], res |-> "NextFile", err |-> "",
     next_file |-> next_file, parsed |-> parsed]

\* the two matches of ZipFile::end; pk is what peek_stream returned, cd what
\* CentralDirHeader::parse returns on the same input
end_step(r, pk, cd) ==
    IF pk.res = "Ok" THEN NextFileStep(pk.n, r, pk.next_file, pk.parsed)
    ELSE IF pk.err # "NotLocalFileHeader"
    THEN StepOf(0, [r EXCEPT !.state = "Error"], "Error", pk.err)
    ELSE IF cd.res = "Ok" THEN StepOf(0, [r EXCEPT !.state = "End"], "Continue", "")
    ELSE IF cd.res = "Incomplete" THEN StepOf(0, r, "NeedsInput", "")
    ELSE StepOf(0, [r EXCEPT !.state = "Error"], "Error", "InvalidCentralDirHeader")

\* ZipFile::end
zip_end(r, input) == end_step(r, zip_peek_stream(input), CentralDirHeader_parse(input))

\* the arms of parse_step that panic: no state is returned
PanicStep(r) == StepOf(0, [r EXCEPT !.state = "Sentinel"], "Panic", "")

\* a ZipFile::parse_step whose End arm starts over with the header parser
zip_parse_step_restarting(r, input) ==
    CASE r.state \in {"Init", "End"} -> zip_parse_header(r, input)
      [] r.state = "HeaderParsed" -> zip_inflate(r, input)
      [] r.state = "Inflated" -> zip_parse_descriptor(r, input)
      [] r.state = "DescriptorParsed" -> zip_end(r, input)
      [] OTHER -> PanicStep(r)

\* a ZipFile::parse_step whose Inflated arm goes on to end
zip_parse_step_skipping(r, input) ==
    CASE r.state = "Init" -> zip_parse_header(r, input)
      [] r.state = "HeaderParsed" -> zip_inflate(r, input)
      [] r.state \in {"Inflated", "DescriptorParsed"} -> zip_end(r, input)
      [] r.state = "End" -> StepOf(0, r, "EndOfFile", "")
      [] OTHER -> PanicStep(r)

\* ZipFile::parse_step
zip_parse_step(r, input) ==
    CASE r.state = "Init" -> zip_parse_header(r, input)
      [] r.state = "HeaderParsed" -> zip_inflate(r, input)
      [] r.state = "Inflated" -> zip_parse_descriptor(r, input)
      [] r.state = "DescriptorParsed" -> zip_end(r, input)
      [] r.state = "End" -> StepOf(0, r, "EndOfFile", "")
      [] OTHER -> PanicStep(r)                           \* Sentinel, Error

\* GZipFile::parse_header
gzip_parse_header(r, input) ==
    header_step(r, MemberHeader_parse(input), "InvalidMemberHeader")

\* GZipFile::inflate
gzip_inflate(r, input) == fed_step(r, input, feed_input(r.inflater, input))

\* the match of gzip::peek_stream: the header it parsed is dropped, the reader it
\* returns starts in Init with nothing stored
gzip_peeked(input, p) ==
    IF p.res = "Ok" THEN Peeked("Ok", "", p.n, p.n, gzip_start_stream)
    ELSE IF p.res = "Incomplete" THEN Peeked("Ok", "", Len(input), 0, gzip_start_stream)
    ELSE Peeked("Err", "InvalidMemberHeader", 0, 0, NoReader)

\* gzip::peek_stream
gzip_peek_stream(input) == gzip_peeked(input, MemberHeader_parse(input))

\* GZipFile::parse_footer after the footer parsed; pk is peek_stream on the rest
footer_peeked(r, pk) ==
    IF pk.res = "Err" THEN StepOf(0, r, "Error", "InvalidMemberHeader")
    ELSE NextFileStep(FooterLen + pk.n, r, pk.next_file, FooterLen + pk.parsed)

\* GZipFile::parse_footer
gzip_parse_footer(r, input) ==
    IF parse_footer(input).res = "Incomplete" THEN StepOf(0, r, "NeedsInput", "")
    ELSE IF Len(input) = FooterLen
    THEN StepOf(Len(input), [r EXCEPT !.state = "End"], "EndOfFile", "")
    ELSE footer_peeked(r, gzip_peek_stream(Drop(input, FooterLen)))

\* a GZipFile::parse_step in which Eof answers EndOfFile again
gzip_parse_step_eof_again(r, input) ==
    CASE r.state = "Init" -> gzip_parse_header(r, input)
      [] r.state = "HeaderParsed" -> gzip_inflate(r, input)
      [] r.state = "Inflated" -> gzip_parse_footer(r, input)
      [] r.state \in {"End", "Eof"} -> StepOf(0, [r EXCEPT !.state = "Eof"], "EndOfFile", "")
      [] OTHER -> PanicStep(r)

\* GZipFile::parse_step
gzip_parse_step(r, input) ==
    CASE r.state = "Init" -> gzip_parse_header(r, input)
      [] r.state = "HeaderParsed" -> gzip_inflate(r, input)
      [] r.state = "Inflated" -> gzip_parse_footer(r, input)
      [] r.state = "End" -> StepOf(0, [r EXCEPT !.state = "Eof"], "EndOfFile", "")
      [] OTHER -> PanicStep(r)                           \* Eof, Sentinel, Error

parse_step(r, input) ==
    IF r.kind = "zip" THEN zip_parse_step(r, input) ELSE gzip_parse_step(r, input)

(***************************************************************************)
(* ZipFile::read and GZipFile::read.  A return is                          *)
(*   [reader, tag, err, unparsed_input, output, next_file, parsed, end_at, *)
(*    desc]                                                                *)
(* tag: NeedsInput, HasOutput, NextFile, EndOfFile, NeedsInputOrEof, Error *)
(* (the Err return), Panic, or Diverge when MaxSteps steps did not return. *)
(* parsed counts the bytes parsers and the inflater took in this call;     *)
(* end_at is the value of parsed when ZipFile::end last ran, -1 if it did  *)
(* not run.  desc describes the last run of ZipFile::parse_descriptor in    *)
(* the call: the value of parsed when it ran (at, -1 if it did not run),   *)
(* the bytes it took (n), the header flags and the sizes it compared with, *)
(* and the state and the error it returned.                                *)
(***************************************************************************)
NoDescriptor ==
    [at |-> -1, n |-> 0, state |-> "", err |-> "", deferred_sizes |-> FALSE,
     is_zip64 |-> FALSE, comp_size |-> 0, uncomp_size |-> 0]

NoGhost ==
    [parsed |-> 0, end_at |-> -1, desc |-> NoDescriptor, stitch |-> 0, underrun |-> FALSE,
     path |-> <<>>, empties |-> <<>>, stalled |-> FALSE]

\* the record of a run of ZipFile::parse_descriptor on reader r that returned s
DescriptorRun(at, r, s) ==
    [at |-> at, n |-> s.n, state |-> s.r.state, err |-> s.err,
     deferred_sizes |-> r.header.deferred_sizes, is_zip64 |-> r.header.is_zip64,
     comp_size |-> r.comp_size, uncomp_size |-> r.uncomp_size]

Ret(r, storage, tag, err, unparsed_input, output, next_file, g) ==
    [reader |-> [r EXCEPT !.unparsed = storage], tag |-> tag, err |-> err,
     unparsed_input |-> unparsed_input, output |-> output, next_file |-> next_file,
     parsed |-> g.parsed, end_at |-> g.end_at, desc |-> g.desc, stitch |-> g.stitch,
     underrun |-> g.underrun, path |-> g.path, empties |-> g.empties,
     stalled |-> g.stalled]

\* what the reader keeps of the storage on the returns that do not call return_storage
KeptStorage(r, storage) == IF r.kind = "zip" THEN storage ELSE <<>>

\* a panic; where names the call that panicked when it is one of input_helper.rs
PanickedIn(where, r, g) == Ret(r, <<>>, "Panic", where, <<>>, <<>>, NoReader, g)

Panicked(r, g) == PanickedIn("", r, g)

\* the stitch buffer as it is when unparsed.assert_take_long() is called
Stitched(g, ih) == [g EXCEPT !.stitch = Len(ih.storage)]

\* the header of r gives both sizes as zero and is not to be followed by a descriptor
DeclaredEmpty(r) ==
    /\ r.kind = "zip" /\ r.state = "HeaderParsed"
    /\ r.header.compressed_size = ZERO_SIZE /\ r.header.uncompressed_size = ZERO_SIZE
    /\ ~r.header.deferred_sizes

\* the record of a run of ZipFile::inflate on such a reader: the view it was given and
\* the step s it returned
Looked(g, r, view, s) ==
    IF DeclaredEmpty(r)
    THEN [g EXCEPT !.empties =
              Append(@, [look |-> Len(view.bytes),
                         signed |-> Take(view.bytes, 4) = LOCAL_FILE_HEADER_TAG,
                         n |-> s.n, res |-> s.res, state |-> s.r.state,
                         comp_size |-> s.r.comp_size, uncomp_size |-> s.r.uncomp_size,
                         untouched |-> (s.r.inflater = r.inflater)])]
    ELSE g

RECURSIVE read_loop(_, _, _, _, _, _)

\* ParseResult::NeedsInput; e is what extend_input returned
after_extend(r, e, g, fuel, debug) ==
    IF e.ret = 0
    THEN Ret(r, e.ih.storage, "NeedsInput", "", <<>>, <<>>, NoReader, g)
    ELSE read_loop(r, e.ih, get_unparsed(e.ih), g, fuel - 1, debug)

\* the match on res and the emptiness test after it; s is what parse_step
\* returned, c what ihandler.consumed(bytes_consumed) returned
after_consumed(s, c, g, fuel, debug) ==
    CASE s.res = "Continue" ->
           IF Len(c.view.bytes) = 0
           THEN Ret(s.r, KeptStorage(s.r, c.ih.storage), "NeedsInput", "", <<>>, <<>>,
                    NoReader, g)
           ELSE read_loop(s.r, c.ih, c.view, g, fuel - 1, debug)
      [] s.res = "NeedsInput" -> after_extend(s.r, extend_input(c.ih), g, fuel, debug)
      [] s.res = "Output" ->
           IF ~c.view.long THEN PanickedIn("assert_take_long", s.r, Stitched(g, c.ih))
           ELSE Ret(s.r, KeptStorage(s.r, c.ih.storage), "HasOutput", "", c.view.bytes,
                    get_output(s.r.inflater), NoReader, Stitched(g, c.ih))
      [] s.res = "NextFile" ->
           IF ~c.view.long THEN PanickedIn("assert_take_long", s.r, Stitched(g, c.ih))
           ELSE Ret(s.r, KeptStorage(s.r, c.ih.storage), "NextFile", "", c.view.bytes,
                    <<>>, s.next_file, Stitched(g, c.ih))
      [] s.res = "EndOfFile" ->
           IF s.r.kind = "zip" \/ s.r.state = "Eof"
           THEN Ret(s.r, KeptStorage(s.r, c.ih.storage), "EndOfFile", "", <<>>, <<>>,
                    NoReader, g)
           ELSE Ret(s.r, KeptStorage(s.r, c.ih.storage), "NeedsInputOrEof", "", <<>>,
                    <<>>, gzip_start_stream, g)
      [] OTHER ->
           Ret(s.r, KeptStorage(s.r, c.ih.storage), "Error", s.err, <<>>, <<>>, NoReader, g)

\* unparsed = ihandler.consumed(bytes_consumed), which may panic
try_consumed(r, s, c, g, fuel, debug) ==
    IF ~c.ok THEN PanickedIn("consumed", [r EXCEPT !.state = "Sentinel"], g)
    ELSE after_consumed(s, c, g, fuel, debug)

\* an iteration of the loop of read that takes no byte, leaves the state where it was
\* and goes round again on the same view
Stalls(r, s, unparsed) ==
    s.res = "Continue" /\ s.n = 0 /\ s.r.state = r.state /\ Len(unparsed.bytes) > 0

\* an iteration that leaves everything as it found it: parse_step took nothing and
\* returned Continue with the reader unchanged, consumed(0) changes nothing, and the
\* view is not empty, so the next iteration is this one again, without end
Repeats(r, s, unparsed) ==
    s.res = "Continue" /\ s.n = 0 /\ s.r = r /\ Len(unparsed.bytes) > 0

after_step(r, ih, s, g, fuel, debug) ==
    IF s.res = "Panic" THEN Panicked(s.r, g)
    ELSE IF Repeats(r, s, get_unparsed(ih))
    THEN Ret(r, ih.storage, "Diverge", "", <<>>, <<>>, NoReader,
             [g EXCEPT !.stalled = TRUE])
    ELSE
    try_consumed(r, s, consumed(ih, s.n, debug),
                 [parsed |-> g.parsed + s.parsed,
                  end_at |-> IF r.kind = "zip" /\ r.state = "DescriptorParsed"
                             THEN g.parsed ELSE g.end_at,
                  desc |-> IF r.kind = "zip" /\ r.state = "Inflated"
                           THEN DescriptorRun(g.parsed, r, s) ELSE g.desc,
                  stitch |-> g.stitch,
                  underrun |-> g.underrun \/ (s.n > 0 /\ ~(ih.orig_stored < s.n)),
                  path |-> Append(g.path, s.r.state),
                  empties |-> g.empties,
                  stalled |-> g.stalled \/ Stalls(r, s, get_unparsed(ih))],
                 fuel, debug)

\* s is what parse_step returned on the view unparsed
stepped(r, ih, unparsed, s, g, fuel, debug) ==
    after_step(r, ih, s, Looked(g, r, unparsed, s), fuel, debug)

\* one iteration of the loop of read
read_loop(r, ih, unparsed, g, fuel, debug) ==
    IF fuel = 0
    THEN Ret(r, ih.storage, "Diverge", "", <<>>, <<>>, NoReader, g)
    ELSE stepped(r, ih, unparsed, parse_step(r, unparsed.bytes), g, fuel, debug)

with_storage(r, ihandler, debug) ==
    read_loop(r, ihandler, get_unparsed(ihandler), NoGhost,
              MaxSteps, debug)

read(r, input, debug) ==
    with_storage([r EXCEPT !.unparsed = <<>>], take_storage(r.unparsed, input), debug)

\* ZipFile::filename / GZipFile::filename: <<FALSE>> is None, <<TRUE, name>> is Some(name)
filename(r) ==
    IF r.kind = "zip"
    THEN IF r.state \in {"HeaderParsed", "Inflated", "DescriptorParsed", "End"}
         THEN <<TRUE, r.header.filename>>
         ELSE <<FALSE>>
    ELSE IF r.state \in {"HeaderParsed", "Inflated", "End"} /\ r.header.has_filename
         THEN <<TRUE, r.header.filename>>
         ELSE <<FALSE>>

(***************************************************************************)
(* lib.rs: File, the reader that detects the format.  File::Init(buf) is a *)
(* reader record of kind "init" whose unparsed field is buf; File::Zip and *)
(* File::GZip are the reader records of the dedicated readers.             *)
(***************************************************************************)
NEEDED_BYTES == 4

lib_start_stream == NewReader("init")

\* the read after detection; c is what stream.read(unparsed) returned on the
\* detection bytes (expect panics on an Err), rest the input left
replayed(c, rest, debug) ==
    IF c.tag \in {"Error", "Panic"}
    THEN Panicked(c.reader, NoGhost)
    ELSE read(c.reader, rest, debug)

\* autodetect_format once the detection bytes are in buf, and the match of
\* File::read that follows
autodetected(f, buf, rest, debug) ==
    IF Take(buf, 4) = LOCAL_FILE_HEADER_TAG
    THEN replayed(read(zip_start_stream, buf, debug), rest, debug)
    ELSE IF Take(buf, 3) = GZIP_TAG \o GZIP_DEFLATE
    THEN replayed(read(gzip_start_stream, buf, debug), rest, debug)
    ELSE Ret(f, buf, "Error", "UnknownFileFormat", <<>>, <<>>, NoReader,
             NoGhost)

\* an autodetect_format that looks at the bytes of the current call only
autodetect_format_unbuffered(f, input, debug) ==
    IF Len(input) < NEEDED_BYTES
    THEN Ret(f, input, "NeedsInput", "", <<>>, <<>>, NoReader,
             NoGhost)
    ELSE autodetected(f, Take(input, NEEDED_BYTES), Drop(input, NEEDED_BYTES), debug)

\* File::autodetect_format with the match on its result in File::read
autodetect_format(f, input, debug) ==
    IF Len(f.unparsed) + Len(input) < NEEDED_BYTES
    THEN Ret(f, f.unparsed \o input, "NeedsInput", "", <<>>, <<>>, NoReader,
             NoGhost)
    ELSE autodetected(f, f.unparsed \o Take(input, NEEDED_BYTES - Len(f.unparsed)),
                      Drop(input, NEEDED_BYTES - Len(f.unparsed)), debug)

\* File::read
File_read(f, input, debug) ==
    IF f.kind = "init" THEN autodetect_format(f, input, debug)
    ELSE read(f, input, debug)

(***************************************************************************)
(* Streams.  Literal bytes of a DEFLATE body are ASCII letters.            *)
(***************************************************************************)
MSDOS_TIME == <<0, 0>>          \* 00:00:00

MSDOS_DATE == <<33, 0>>         \* 1980-01-01

CRC == <<17, 34, 51, 68>>       \* never checked by the readers

\* a local file header; flags is the low byte of the general purpose bit flags
ZipLocal(flags, csize, usize, fname, extra) ==
    LOCAL_FILE_HEADER_TAG \o LE16(20) \o <<flags, 0>> \o LE16(8) \o MSDOS_TIME
        \o MSDOS_DATE \o CRC \o LE32(csize) \o LE32(usize) \o LE16(Len(fname))
        \o LE16(Len(extra)) \o fname \o extra

ZipDescriptor(csize, usize) == DATA_DESCRIPTOR_TAG \o CRC \o LE32(csize) \o LE32(usize)

ZipCentral(flags, csize, usize, fname) ==
    CENTRAL_DIR_HEADER_TAG \o <<20, 3>> \o LE16(20) \o <<flags, 0>> \o LE16(8)
        \o MSDOS_TIME \o MSDOS_DATE \o CRC \o LE32(csize) \o LE32(usize)
        \o LE16(Len(fname)) \o LE16(0) \o LE16(0) \o LE16(0) \o LE16(0) \o LE32(0)
        \o LE32(0) \o fname

ZipCentralEnd(entries) ==
    CENTRAL_DIR_END_TAG \o LE16(0) \o LE16(0) \o LE16(entries) \o LE16(entries)
        \o LE32(0) \o LE32(0) \o LE16(0)

GzMember(flags, optional, body, isize) ==
    GZIP_TAG \o GZIP_DEFLATE \o <<flags>> \o LE32(0) \o <<0, 3>> \o optional \o body
        \o CRC \o LE32(isize)

LongName == Rep(110, 52)

BodyAB == <<65, 66, EOB>>

BodyC == <<67, EOB>>

\* two entries, the second with deferred sizes and a data descriptor
ZipTwo ==
    ZipLocal(0, 3, 2, <<97>>, <<>>) \o BodyAB
        \o ZipLocal(8, 0, 0, <<98>>, <<>>) \o BodyC \o ZipDescriptor(2, 1)
        \o ZipCentral(0, 3, 2, <<97>>) \o ZipCentral(8, 2, 1, <<98>>) \o ZipCentralEnd(2)

\* one entry whose local header is longer than the stitch budget
ZipLongName ==
    ZipLocal(0, 2, 1, LongName, <<>>) \o BodyC \o ZipCentral(0, 2, 1, LongName)
        \o ZipCentralEnd(1)

\* a signed data descriptor with another uncompressed size than the body's
ZipBadDescriptor ==
    ZipLocal(0, 2, 1, <<97>>, <<>>) \o BodyC \o ZipDescriptor(2, 5)
        \o ZipCentral(0, 2, 1, <<97>>) \o ZipCentralEnd(1)

\* deferred sizes and an unsigned data descriptor with another compressed size
ZipBadUnsigned ==
    ZipLocal(8, 0, 0, <<97>>, <<>>) \o BodyC \o CRC \o LE32(3) \o LE32(1)
        \o ZipCentral(8, 2, 1, <<97>>) \o ZipCentralEnd(1)

\* an extra-field block with an extended-timestamp entry (0x5455) and an entry whose
\* header id (0x9999) is not one parse_header_id lists
UnknownExtra == LE16(21589) \o LE16(1) \o <<1>> \o LE16(39321) \o LE16(2) \o <<7, 7>>

ZipUnknownExtra ==
    ZipLocal(0, 2, 1, <<97>>, UnknownExtra) \o BodyC \o ZipCentral(0, 2, 1, <<97>>)
        \o ZipCentralEnd(1)

\* an entry of no bytes (sizes zero, not deferred) followed by a second entry
ZipEmptyFirst ==
    ZipLocal(0, 0, 0, <<97>>, <<>>) \o ZipLocal(0, 2, 1, <<98>>, <<>>) \o BodyC
        \o ZipCentral(0, 0, 0, <<97>>) \o ZipCentral(0, 2, 1, <<98>>) \o ZipCentralEnd(2)

\* an archive whose only entry has no bytes (sizes zero, not deferred)
ZipEmptyLast ==
    ZipLocal(0, 0, 0, <<97>>, <<>>) \o ZipCentral(0, 0, 0, <<97>>) \o ZipCentralEnd(1)

\* a header that gives the sizes as zero before a DEFLATE stream of one byte
ZipZeroSizes == ZipLocal(0, 0, 0, <<97>>, <<>>) \o <<EOB, 7, 7, 7, 7>>

ZipBadDeflate == ZipLocal(0, 3, 2, <<97>>, <<>>) \o <<65, BAD, EOB>>

ZipBadTail == ZipLocal(0, 2, 1, <<97>>, <<>>) \o BodyC \o Rep(88, 14)

GzOne == GzMember(8, <<97, 0>>, BodyAB, 2)

GzLongExtra == GzMember(4, LE16(72) \o Rep(120, 72), BodyC, 1)

GzTwo == GzMember(8, <<97, 0>>, BodyAB, 2) \o GzMember(8, <<98, 0>>, BodyC, 1)

GzBadDeflate == GZIP_TAG \o GZIP_DEFLATE \o <<0>> \o LE32(0) \o <<0, 3>> \o <<65, BAD, EOB>>

GzBadTail == GzMember(0, <<>>, BodyC, 1) \o <<88, 88>>

DeflateBody == <<65, 66, 67, EOB, 9>>

\* a body whose match ends exactly at the end of the window
DeflateWrap == <<65, 66, RUN, 68, EOB>>

\* a body whose match crosses the end of the window by one byte
DeflateSplitMatch == <<65, 66, 67, RUN, EOB>>

\* a member header with compression method 9
GzBadMethod == GZIP_TAG \o <<9, 0>> \o LE32(0) \o <<0, 3>> \o BodyC

Stream(name, kind, bytes, wellformed, members) ==
    [name |-> name, kind |-> kind, bytes |-> bytes, wellformed |-> wellformed,
     members |-> members]

Fixtures ==
    {Stream("ZipTwo", "zip", ZipTwo, TRUE, 2),
     Stream("ZipLongName", "zip", ZipLongName, TRUE, 1),
     Stream("ZipBadDeflate", "zip", ZipBadDeflate, FALSE, 1),
     Stream("ZipUnknownExtra", "zip", ZipUnknownExtra, TRUE, 1),
     Stream("ZipBadDescriptor", "zip", ZipBadDescriptor, FALSE, 1),
     Stream("ZipBadUnsigned", "zip", ZipBadUnsigned, FALSE, 1),
     Stream("ZipBadTail", "zip", ZipBadTail, FALSE, 1),
     Stream("ZipEmptyFirst", "zip", ZipEmptyFirst, TRUE, 2),
     Stream("ZipEmptyLast", "zip", ZipEmptyLast, TRUE, 1),
     Stream("ZipZeroSizes", "zip", ZipZeroSizes, FALSE, 1),
     Stream("GzOne", "gzip", GzOne, TRUE, 1),
     Stream("GzLongExtra", "gzip", GzLongExtra, TRUE, 1),
     Stream("GzTwo", "gzip", GzTwo, TRUE, 2),
     Stream("GzBadDeflate", "gzip", GzBadDeflate, FALSE, 1),
     Stream("GzBadTail", "gzip", GzBadTail, FALSE, 1),
     Stream("DeflateBody", "deflate", DeflateBody, TRUE, 1),
     Stream("DeflateWrap", "deflate", DeflateWrap, TRUE, 1),
     Stream("DeflateSplitMatch", "deflate", DeflateSplitMatch, TRUE, 1),
     Stream("AutoZipLongName", "auto", ZipLongName, TRUE, 1),
     Stream("AutoGzLongExtra", "auto", GzLongExtra, TRUE, 1),
     Stream("AutoGzTwo", "auto", GzTwo, TRUE, 2),
     Stream("AutoEmptyArchive", "auto", ZipCentralEnd(0), FALSE, 0),
     Stream("AutoBadMethod", "auto", GzBadMethod, FALSE, 0)}

\* the dedicated reader that decodes a stream given to File: "none" if there is none
Format(f) ==
    CASE f.kind # "auto" -> "none"
      [] f.name = "AutoZipLongName" -> "zip"
      [] f.name \in {"AutoGzLongExtra", "AutoGzTwo"} -> "gzip"
      [] OTHER -> "none"

\* start_stream of lib.rs, zip.rs or gzip.rs, or a bare inflater
Fresh(kind) == IF kind = "auto" THEN lib_start_stream ELSE NewReader(kind)

(***************************************************************************)
(* The caller.  It cuts the stream into chunks and follows the protocol of *)
(* the State enum: after HasOutput it feeds the returned unparsed_input    *)
(* again, after NextFile it feeds it to next_file, after NeedsInput it     *)
(* feeds the next chunk.  For a bare DEFLATE body it drives one inflater   *)
(* with feed_input in the same way.                                        *)
(***************************************************************************)
\* the return of Stream::feed_input in the shape of a return of read
Fed(r, input, f) ==
    [reader |-> [r EXCEPT !.inflater = f.state],
     tag |-> IF f.tag = "Err" THEN "Error" ELSE f.tag,
     err |-> IF f.tag = "Err" THEN "Failed" ELSE "",
     unparsed_input |-> f.unparsed_input, output |-> f.output,
     next_file |-> NoReader, parsed |-> Len(input) - Len(f.unparsed_input),
     end_at |-> -1, desc |-> NoDescriptor, stitch |-> 0, underrun |-> FALSE, path |-> <<>>,
     empties |-> <<>>, stalled |-> FALSE]

\* one call on the reader: read, File::read before the format is detected, or
\* Stream::feed_input for a bare body
Call(r, input, debug) ==
    IF r.kind = "deflate" THEN Fed(r, input, feed_input(r.inflater, input))
    ELSE IF r.kind = "init" THEN File_read(r, input, debug)
    ELSE read(r, input, debug)

RECURSIVE drive(_, _, _, _, _)

driven(c, acc, fuel, debug) ==
    IF c.tag = "HasOutput"
    THEN drive(c.reader, c.unparsed_input, acc \o c.output, fuel - 1, debug)
    ELSE IF c.tag = "NextFile"
    THEN drive(c.next_file, c.unparsed_input, acc, fuel - 1, debug)
    ELSE acc

\* the output of a run that hands the whole input to the first call
drive(r, input, acc, fuel, debug) ==
    IF fuel = 0 THEN acc ELSE driven(Call(r, input, debug), acc, fuel, debug)

SingleCallOutput == drive(NewReader(fx.kind), fx.bytes, <<>>, MaxSteps, debug_assertions)

NoCall ==
    [op |-> "Start", tag |-> "Start", err |-> "", output |-> <<>>, next_file |-> NoReader,
     before |-> "Init", parsed |-> 0, end_pos |-> -1, probe |-> <<>>, touched |-> FALSE,
     desc |-> NoDescriptor, stitch |-> 0, stored |-> 0, underrun |-> FALSE,
     path |-> <<>>, after |-> "Init", empties |-> <<>>, unparsed_input |-> <<>>,
     stalled |-> FALSE]

\* what the caller records of a call: c is the return, r the reader it was made on
Record(op, r, c, probe) ==
    [op |-> op, tag |-> c.tag, err |-> c.err, output |-> c.output,
     next_file |-> c.next_file, before |-> r.state, parsed |-> c.parsed,
     end_pos |-> IF c.end_at < 0 THEN -1 ELSE parsedPos + c.end_at,
     probe |-> probe, touched |-> (c.reader.inflater # r.inflater),
     desc |-> IF c.desc.at < 0 THEN c.desc ELSE [c.desc EXCEPT !.at = parsedPos + @],
     stitch |-> c.stitch, stored |-> Len(r.unparsed), underrun |-> c.underrun,
     path |-> c.path, after |-> c.reader.state, empties |-> c.empties,
     unparsed_input |-> c.unparsed_input, stalled |-> c.stalled]

Remaining == Len(fx.bytes) - fed

LargeChunks == {StitchBudget + 1, StitchBudget + 2}

ChunkSizes ==
    {n \in (0..MaxSmallChunk) \cup LargeChunks \cup {Remaining} : n <= Remaining}

Probes == {<<>>, <<65, 66>>}

\* the bytes a return keeps for later calls: the stitch buffer of the reader (of the
\* handed-out reader after NextFile), then the returned unparsed_input
Kept(c) ==
    (IF c.tag = "NextFile" THEN c.next_file.unparsed ELSE c.reader.unparsed)
        \o c.unparsed_input

\* the bytes fed and not yet taken by a parser or the inflater are the kept ones
Accounted(c, newfed) ==
    c.tag \in {"NeedsInput", "HasOutput", "NextFile"} =>
        SubSeq(fx.bytes, parsedPos + c.parsed + 1, newfed) = Kept(c)

\* State::assert_no_output: a panic on HasOutput, the same state otherwise
assert_no_output(c) ==
    IF c.tag = "HasOutput" THEN Panicked(c.reader, NoGhost) ELSE c

\* what read_with returns: the return of its last read, and the slices the callback got
WithChunks(c, chunks) ==
    [reader |-> c.reader, tag |-> c.tag, err |-> c.err,
     unparsed_input |-> c.unparsed_input, next_file |-> c.next_file, chunks |-> chunks]

NoIter ==
    [reader |-> NoReader, tag |-> "Start", err |-> "", unparsed_input |-> <<>>,
     next_file |-> NoReader, chunks |-> <<>>]

RECURSIVE read_with_loop(_, _, _, _, _)

\* a read_with that returns after the first read
called_back_once(c, chunks, fuel, debug) ==
    IF c.tag = "HasOutput"
    THEN WithChunks(assert_no_output(c), Append(chunks, c.output))
    ELSE WithChunks(assert_no_output(c), chunks)

\* the body of the loop of read_with after state = self.read(input)?: c is the return
called_back(c, chunks, fuel, debug) ==
    IF c.tag = "HasOutput"
    THEN read_with_loop(c.reader, c.unparsed_input, Append(chunks, c.output), fuel - 1,
                        debug)
    ELSE WithChunks(assert_no_output(c), chunks)

read_with_loop(r, input, chunks, fuel, debug) ==
    IF fuel = 0 THEN WithChunks(Ret(r, <<>>, "Diverge", "", <<>>, <<>>, NoReader, NoGhost),
                                chunks)
    ELSE called_back(Call(r, input, debug), chunks, fuel, debug)

\* ZipFile::read_with and GZipFile::read_with
read_with(r, input, debug) == read_with_loop(r, input, <<>>, MaxSteps, debug)

\* File::read_internal_iter
read_internal_iter(f, input, debug) == read_with_loop(f, input, <<>>, MaxSteps, debug)

\* how many calls of the callback of try_inner_iter may be the failing one
MaxCallbacks == 2

\* inner_iter and try_inner_iter on the input a loop over feed_input starts on: it is
\* the return of inner_iter, tried[k] that of try_inner_iter failing on call k
StreamIterated(r, it, tried) ==
    [reader |-> [r EXCEPT !.inflater = it.state],
     tag |-> IF it.tag = "Err" THEN "Error" ELSE it.tag,
     err |-> IF it.tag = "Err" THEN "Failed" ELSE "",
     unparsed_input |-> it.unparsed_input, next_file |-> NoReader, chunks |-> it.chunks,
     tried |-> tried]

\* the same input given to read_with when the caller's loop over read starts on it;
\* emitted collects the slices the caller's loop gets
Iterated(op, r, c, input) ==
    IF op = "Refeed"
    THEN /\ iter' = iter
         /\ emitted' = IF c.tag = "HasOutput" THEN Append(emitted, c.output) ELSE emitted
    ELSE /\ iter' = IF r.kind = "deflate"
                    THEN StreamIterated(r, inner_iter(r.inflater, input),
                                        [k \in 0..MaxCallbacks |->
                                            try_inner_iter(r.inflater, input, k)])
                    ELSE IF r.kind = "init"
                    THEN read_internal_iter(r, input, debug_assertions)
                    ELSE read_with(r, input, debug_assertions)
         /\ emitted' = IF c.tag = "HasOutput" THEN <<c.output>> ELSE <<>>

\* what a caller sees of a return
Seen(c) ==
    [tag |-> c.tag, err |-> c.err, output |-> c.output,
     unparsed_input |-> c.unparsed_input, next_file |-> c.next_file]

NothingSeen ==
    [tag |-> "Start", err |-> "", output |-> <<>>, unparsed_input |-> <<>>,
     next_file |-> NoReader]

\* the reader the caller of the dedicated reader calls next
DedicatedFor(op) ==
    IF op \in {"ReadNext", "UseFresh"} THEN dlast.next_file ELSE dedicated

\* the same call made on the dedicated reader returned d
DedicatedReturn(c, d) ==
    /\ dedicated' = d.reader
    /\ dlast' = Seen(d)
    /\ agree' = (Seen(c) = Seen(d))

\* the dedicated reader gets the calls the File gets for as long as both callers
\* have seen the same returns
DedicatedCall(op, c, input) ==
    IF dedicated.kind = "none" \/ ~agree
    THEN UNCHANGED <<dedicated, dlast, agree>>
    ELSE DedicatedReturn(c, Call(DedicatedFor(op), input, debug_assertions))

\* the caller's bookkeeping after a call with bytes of the stream returned c
StreamReturn(op, r, c, newfed) ==
    /\ reader' = c.reader
    /\ last' = Record(op, r, c, <<>>)
    /\ pending' = IF c.tag \in {"HasOutput", "NextFile"} THEN c.unparsed_input ELSE <<>>
    /\ out' = out \o c.output
    /\ parsedPos' = parsedPos + c.parsed
    /\ errored' = (errored \/ c.tag \in {"Error", "Panic", "Diverge"})
    /\ intact' = (intact /\ Accounted(c, newfed))
    /\ fed' = newfed
    /\ UNCHANGED <<fx, debug_assertions, rlast, again, stamp, decoded, handler>>

StreamCalled(op, r, c, input, newfed) ==
    /\ StreamReturn(op, r, c, newfed)
    /\ DedicatedCall(op, c, input)
    /\ Iterated(op, r, c, input)

StreamCall(op, r, input, newfed) ==
    StreamCalled(op, r, Call(r, input, debug_assertions), input, newfed)

\* the caller's bookkeeping after a read with bytes that are not of the stream
ProbeReturn(r, c, p) ==
    /\ reader' = c.reader
    /\ last' = Record("ReadAgain", r, c, p)
    /\ out' = out \o c.output
    /\ errored' = (errored \/ c.tag \in {"Error", "Panic", "Diverge"})

RetiredReturn(r, c, p) ==
    /\ retired' = c.reader
    /\ rlast' = Record("ReadRetired", r, c, p)

NoInputHandler == [orig_stored |-> 0, input_consumed |-> 0, storage |-> <<>>, orig_input |-> <<>>]

\* what is recorded of a call on an InputHandler: the handler and the view before
\* and after, the argument, the length returned, and the reader's buffer
Handled(op, before, prior, ih, arg, ret, ok, view, reader_storage, reads) ==
    [op |-> op, before |-> before, prior |-> prior, ih |-> ih, arg |-> arg, ret |-> ret,
     ok |-> ok, view |-> view, reader_storage |-> reader_storage, reads |-> reads]

NoHandler ==
    Handled("none", NoInputHandler, Long(<<>>), NoInputHandler, 0, 0, TRUE, Long(<<>>),
            <<>>, 0)

NoStamp == [f |-> "none", y |-> 0, m |-> 0, d |-> 0, bytes |-> <<>>]

NotDecoded == [done |-> FALSE, res |-> "", err |-> "", days |-> 0, secs |-> 0]

Init ==
    /\ fx \in Fixtures
    /\ debug_assertions \in BOOLEAN
    /\ fed = 0
    /\ reader = Fresh(fx.kind)
    /\ dedicated = NewReader(Format(fx))
    /\ dlast = NothingSeen
    /\ agree = TRUE
    /\ iter = NoIter
    /\ emitted = <<>>
    /\ stamp = NoStamp
    /\ decoded = NotDecoded
    /\ handler = NoHandler
    /\ retired = NoReader
    /\ pending = <<>>
    /\ last = NoCall
    /\ rlast = NoCall
    /\ out = <<>>
    /\ parsedPos = 0
    /\ errored = FALSE
    /\ intact = TRUE
    /\ again = 0

\* the next chunk of the stream, after NeedsInput (or as the first call)
Feed(n) ==
    /\ last.tag \in {"Start", "NeedsInput"}
    /\ again = 0
    /\ StreamCall("Feed", reader, Slice(fx.bytes, fed, fed + n), fed + n)
    /\ UNCHANGED retired

\* the returned unparsed_input again, after HasOutput
Refeed ==
    /\ last.tag = "HasOutput"
    /\ again = 0
    /\ StreamCall("Refeed", reader, pending, fed)
    /\ UNCHANGED retired

\* the returned unparsed_input to the handed-out reader, after NextFile
ReadNext ==
    /\ last.tag = "NextFile"
    /\ again = 0
    /\ retired' = reader
    /\ StreamCall("ReadNext", last.next_file, pending, fed)

\* more input arrived after NeedsInputOrEof: it goes to the carried reader
UseFresh(n) ==
    /\ last.tag = "NeedsInputOrEof"
    /\ again = 0
    /\ n > 0
    /\ retired' = reader
    /\ StreamCall("UseFresh", last.next_file, Slice(fx.bytes, fed, fed + n), fed + n)

\* one more read on the same reader after a terminal return or an error
ReadAgain(p) ==
    /\ last.tag \in {"NeedsInputOrEof", "EndOfFile", "Error"}
    /\ fx.kind # "deflate"
    /\ again < MaxAgain
    /\ ProbeReturn(reader, Call(reader, p, debug_assertions), p)
    /\ again' = again + 1
    /\ pending' = <<>>
    /\ UNCHANGED <<fx, debug_assertions, fed, retired, rlast, parsedPos, intact,
                   dedicated, dlast, agree, iter, emitted, stamp, decoded, handler>>

\* a read on the reader that handed out the current one
ReadRetired(p) ==
    /\ retired.kind # "none"
    /\ rlast.tag \notin {"Panic", "Diverge"}
    /\ RetiredReturn(retired, Call(retired, p, debug_assertions), p)
    /\ UNCHANGED <<fx, debug_assertions, fed, reader, pending, last, out, parsedPos,
                   errored, intact, dedicated, dlast, agree, iter, emitted, stamp, decoded,
                   handler, again>>

Next ==
    \/ \E n \in ChunkSizes : Feed(n)
    \/ Refeed
    \/ ReadNext
    \/ \E n \in ChunkSizes : UseFresh(n)
    \/ \E p \in Probes : ReadAgain(p)
    \/ \E p \in Probes : ReadRetired(p)

Spec == Init /\ [][Next]_vars

(***************************************************************************)
(* The functions of zip/datetime.rs on their own: the arguments are drawn  *)
(* from the values the bit fields of the MS-DOS words can hold, and one    *)
(* step applies the function.                                              *)
(***************************************************************************)
\* every value of the 7-bit year, the 4-bit month and the 5-bit day field
DateArgs ==
    {[f |-> "days", y |-> y, m |-> m, d |-> d, bytes |-> <<>>] :
        y \in 0..127, m \in 0..15, d \in 0..31}

Hours == {0, 13, 23, 24, 31}

Minutes == {0, 11, 59, 60, 63}

HalfSeconds == {0, 15, 29, 30, 31}

Years == {0, 38, 120, 124, 127}

Months == {0, 1, 2, 3, 12, 13}

Days == {0, 1, 28, 29, 30, 31}

TimeWords == {h * 2048 + mi * 32 + hs : h \in Hours, mi \in Minutes, hs \in HalfSeconds}

DateWords == {y * 512 + m * 32 + d : y \in Years, m \in Months, d \in Days}

\* the inputs of test_parse_msdos_datetime, little-endian
TestedStamps ==
    {<<189, 5, 138, 76>>, <<125, 105, 141, 76>>, <<47, 146, 144, 76>>,
     <<61, 146, 144, 76>>, <<119, 111, 204, 76>>, <<197, 112, 204, 76>>}

\* inputs of parse_msdos_datetime: the two words, whole or cut short
DatetimeArgs ==
    {[f |-> "datetime", y |-> 0, m |-> 0, d |-> 0, bytes |-> b] :
        b \in TestedStamps
               \cup {LE16(t) \o LE16(w) : t \in TimeWords, w \in DateWords}
               \cup {Take(LE16(t) \o LE16(w), n) :
                         t \in {0, 49152}, w \in {33, 0}, n \in 0..3}}

DateInit ==
    /\ stamp \in DateArgs \cup DatetimeArgs
    /\ decoded = NotDecoded
    /\ handler = NoHandler
    /\ fx = Stream("DeflateBody", "deflate", DeflateBody, TRUE, 1)
    /\ debug_assertions = FALSE
    /\ fed = 0
    /\ reader = Fresh(fx.kind)
    /\ dedicated = NoReader
    /\ dlast = NothingSeen
    /\ agree = TRUE
    /\ iter = NoIter
    /\ emitted = <<>>
    /\ retired = NoReader
    /\ pending = <<>>
    /\ last = NoCall
    /\ rlast = NoCall
    /\ out = <<>>
    /\ parsedPos = 0
    /\ errored = FALSE
    /\ intact = TRUE
    /\ again = 0

Streaming ==
    <<fx, debug_assertions, fed, reader, retired, pending, last, rlast, out, parsedPos,
      errored, intact, dedicated, dlast, agree, iter, emitted, again>>

\* days_since_msdos_epoch(y, m, d)
DaysSince ==
    /\ stamp.f = "days" /\ ~decoded.done
    /\ decoded' = Decoded(IF days_since_msdos_epoch(stamp.y, stamp.m, stamp.d).ok
                          THEN "Ok" ELSE "Err", "",
                          days_since_msdos_epoch(stamp.y, stamp.m, stamp.d).v, 0)
    /\ UNCHANGED <<stamp, handler, Streaming>>

\* parse_msdos_datetime(bytes)
ParseDatetime ==
    /\ stamp.f = "datetime" /\ ~decoded.done
    /\ decoded' = parse_msdos_datetime(stamp.bytes)
    /\ UNCHANGED <<stamp, handler, Streaming>>

DateNext == DaysSince \/ ParseDatetime

DateSpec == DateInit /\ [][DateNext]_vars

(***************************************************************************)
(* A second driver: an InputHandler on its own, called the way read calls  *)
(* it: take_storage, then consumed and extend_input in any order, then     *)
(* return_storage and the next read's take_storage.                        *)
(***************************************************************************)
\* n bytes that tell their position, starting with the byte first
BytesFrom(first, n) == [k \in 1..n |-> first + k - 1]

StoredBytes == {BytesFrom(201, n) : n \in 0..MaxStored}

InputLens ==
    {0, 1, StitchBudget, StitchBudget + 1, 2 * StitchBudget + MaxStored}

HandlerInputs == {BytesFrom(1, n) : n \in InputLens}

\* InputHandler::take_storage(&mut self.unparsed, input) and get_unparsed
Taken(reader_storage, orig_input, ih, reads) ==
    Handled("take_storage", [NoInputHandler EXCEPT !.storage = reader_storage,
                                                   !.orig_input = orig_input],
            Long(<<>>), ih, 0, 0, TRUE, get_unparsed(ih), <<>>, reads)

\* the numbers of bytes a parse step may report on a view
ConsumedArgs(h) ==
    {n \in {0, 1, h.ih.orig_stored, h.ih.orig_stored + 1, Len(h.view.bytes) - 1,
             Len(h.view.bytes)} : n >= 0 /\ n <= Len(h.view.bytes)}

HandlerInit ==
    /\ \E S \in StoredBytes, input \in HandlerInputs :
           handler = Taken(S, input, take_storage(S, input), 1)
    /\ stamp = NoStamp
    /\ decoded = NotDecoded
    /\ fx = Stream("DeflateBody", "deflate", DeflateBody, TRUE, 1)
    /\ debug_assertions \in BOOLEAN
    /\ fed = 0
    /\ reader = Fresh(fx.kind)
    /\ dedicated = NoReader
    /\ dlast = NothingSeen
    /\ agree = TRUE
    /\ iter = NoIter
    /\ emitted = <<>>
    /\ retired = NoReader
    /\ pending = <<>>
    /\ last = NoCall
    /\ rlast = NoCall
    /\ out = <<>>
    /\ parsedPos = 0
    /\ errored = FALSE
    /\ intact = TRUE
    /\ again = 0

\* read has not returned
InHand == handler.ok /\ handler.op \in {"take_storage", "consumed", "extend_input"}

\* read is in its loop: the last extend_input, if any, did not return 0
InLoop == InHand /\ (handler.op = "extend_input" => handler.ret > 0)

WasConsumed(n, c) ==
    Handled("consumed", handler.ih, handler.view, c.ih, n, 0, c.ok, c.view,
            handler.reader_storage, handler.reads)

\* unparsed = ihandler.consumed(n)
Consumed(n) ==
    /\ InLoop
    /\ handler' = WasConsumed(n, consumed(handler.ih, n, debug_assertions))
    /\ UNCHANGED <<stamp, decoded, Streaming>>

WasExtended(e) ==
    Handled("extend_input", handler.ih, handler.view, e.ih, 0, e.ret, TRUE,
            IF e.ret = 0 THEN handler.view ELSE get_unparsed(e.ih),
            handler.reader_storage, handler.reads)

\* let extended_len = ihandler.extend_input(); unparsed = ihandler.get_unparsed()
\* unless extended_len is 0
ExtendInput ==
    /\ InLoop
    /\ handler' = WasExtended(extend_input(handler.ih))
    /\ UNCHANGED <<stamp, decoded, Streaming>>

WasReturned(t) ==
    Handled("return_storage", handler.ih, handler.view, t.ih, 0, 0, TRUE, handler.view,
            t.reader_storage, handler.reads)

\* ihandler.return_storage(&mut self.unparsed)
ReturnStorage ==
    /\ InHand
    /\ handler' = WasReturned(return_storage(handler.ih, handler.reader_storage))
    /\ UNCHANGED <<stamp, decoded, Streaming>>

\* the take_storage of the next read, on the buffer the last read returned
TakeStorage(input) ==
    /\ handler.op = "return_storage" /\ handler.reads < MaxReads
    /\ handler' = Taken(handler.reader_storage, input,
                        take_storage(handler.reader_storage, input), handler.reads + 1)
    /\ UNCHANGED <<stamp, decoded, Streaming>>

HandlerNext ==
    \/ \E n \in ConsumedArgs(handler) : Consumed(n)
    \/ ExtendInput
    \/ ReturnStorage
    \/ \E input \in HandlerInputs : TakeStorage(input)

HandlerSpec == HandlerInit /\ [][HandlerNext]_vars

(***************************************************************************)
(* ZipFile::read_headers, and a caller that reads the local header of each *)
(* entry with it before it lets read take the entry.  The reader, the      *)
(* stream and the returned unparsed input are the variables of the main    *)
(* specification; parsedPos is where the entry of the reader starts in the *)
(* stream, last the call made last.                                        *)
(***************************************************************************)
HeadersReturn(r, storage, tag, err, unparsed_input) ==
    [reader |-> [r EXCEPT !.unparsed = storage], tag |-> tag, err |-> err,
     unparsed_input |-> unparsed_input]

RECURSIVE read_headers_loop(_, _, _, _, _)

\* the match on ext_len
headers_extended(r, e, fuel, debug) ==
    IF e.ret = 0 THEN HeadersReturn(r, e.ih.storage, "NeedsInput", "", <<>>)
    ELSE read_headers_loop(r, e.ih, get_unparsed(e.ih), fuel - 1, debug)

\* the loop body from unparsed = ihandler.consumed(bytes_consumed) on: r is the reader
\* before the step, s what parse_header returned, c what consumed returned
headers_matched(r, s, c, fuel, debug) ==
    IF ~c.ok THEN HeadersReturn(r, <<>>, "Panic", "consumed", <<>>)
    ELSE CASE s.res = "Continue" ->
                IF ~c.view.long
                THEN HeadersReturn(s.r, <<>>, "Panic", "assert_take_long", <<>>)
                ELSE HeadersReturn(s.r, c.ih.storage, "Done", "", c.view.bytes)
           [] s.res = "NeedsInput" ->
                headers_extended(s.r, extend_input(c.ih), fuel, debug)
           [] OTHER -> HeadersReturn(s.r, c.ih.storage, "Error", s.err, <<>>)

headers_stepped(r, ih, s, fuel, debug) ==
    headers_matched(r, s, consumed(ih, s.n, debug), fuel, debug)

read_headers_loop(r, ih, unparsed, fuel, debug) ==
    IF fuel = 0 THEN HeadersReturn(r, ih.storage, "Diverge", "", <<>>)
    ELSE headers_stepped(r, ih, zip_parse_header(r, unparsed.bytes), fuel, debug)

headers_with_storage(r, ihandler, debug) ==
    read_headers_loop(r, ihandler, get_unparsed(ihandler), MaxSteps, debug)

\* ZipFile::read_headers
read_headers(r, input, debug) ==
    IF r.state # "Init" THEN HeadersReturn(r, r.unparsed, "Done", "", input)
    ELSE headers_with_storage([r EXCEPT !.unparsed = <<>>],
                              take_storage(r.unparsed, input), debug)

HeaderFixtures ==
    {f \in Fixtures : f.name \in {"ZipTwo", "ZipLongName", "ZipUnknownExtra", "ZipEmptyFirst"}}

NoHeadersCall ==
    [op |-> "Start", tag |-> "Start", err |-> "", before |-> NoReader, input |-> <<>>,
     unparsed_input |-> <<>>]

HeadersCall(op, r, input, c) ==
    [op |-> op, tag |-> c.tag, err |-> c.err, before |-> r, input |-> input,
     unparsed_input |-> c.unparsed_input]

HeadersInit ==
    /\ fx \in HeaderFixtures
    /\ debug_assertions \in BOOLEAN
    /\ fed = 0
    /\ reader = NewReader("zip")
    /\ last = NoHeadersCall
    /\ pending = <<>>
    /\ parsedPos = 0
    /\ stamp = NoStamp
    /\ decoded = NotDecoded
    /\ handler = NoHandler
    /\ dedicated = NoReader
    /\ dlast = NothingSeen
    /\ agree = TRUE
    /\ iter = NoIter
    /\ emitted = <<>>
    /\ retired = NoReader
    /\ rlast = NoCall
    /\ out = <<>>
    /\ errored = FALSE
    /\ intact = TRUE
    /\ again = 0

HeadersFrame ==
    <<fx, debug_assertions, retired, rlast, out, errored, intact, dedicated, dlast, agree,
      iter, emitted, again, stamp, decoded, handler>>

\* what the caller passes next: the unparsed input it was handed back, if any, else
\* the next n bytes of the stream
Passed(n) == IF Len(pending) > 0 THEN pending ELSE Slice(fx.bytes, fed, fed + n)

MayPass(n) ==
    /\ last.tag \notin {"Panic", "Error", "Diverge", "EndOfFile"}
    /\ IF Len(pending) > 0 THEN n = 0 ELSE n > 0

\* c is what read_headers returned on input
HeadersReturned(input, n, c) ==
    /\ reader' = c.reader
    /\ last' = HeadersCall("read_headers", reader, input, c)
    /\ pending' = IF c.tag = "Done" /\ reader.state = "Init" THEN c.unparsed_input
                  ELSE pending
    /\ fed' = IF reader.state = "Init" /\ Len(pending) = 0 THEN fed + n ELSE fed
    /\ UNCHANGED <<parsedPos, HeadersFrame>>

\* read_headers on a reader whose header is still to come
HeadersFeed(n) ==
    /\ reader.state = "Init"
    /\ MayPass(n)
    /\ HeadersReturned(Passed(n), n, read_headers(reader, Passed(n), debug_assertions))

\* read_headers on a reader that is past its header
HeadersAgain(p) ==
    /\ reader.state # "Init"
    /\ last.op # "read_headers"
    /\ last.tag \notin {"Panic", "Diverge"}
    /\ HeadersReturned(p, 0, read_headers(reader, p, debug_assertions))

\* c is what read returned on input
EntryReturned(input, n, c) ==
    /\ reader' = IF c.tag = "NextFile" THEN c.next_file ELSE c.reader
    /\ last' = HeadersCall("read", reader, input, c)
    /\ pending' = IF c.tag \in {"HasOutput", "NextFile"} THEN c.unparsed_input ELSE <<>>
    /\ fed' = IF Len(pending) = 0 THEN fed + n ELSE fed
    /\ parsedPos' = IF c.tag = "NextFile"
                    THEN (IF Len(pending) = 0 THEN fed + n ELSE fed) - Len(c.unparsed_input)
                    ELSE parsedPos
    /\ UNCHANGED HeadersFrame

\* read on the reader once its header is parsed
EntryRead(n) ==
    /\ reader.state # "Init"
    /\ MayPass(n)
    /\ EntryReturned(Passed(n), n, read(reader, Passed(n), debug_assertions))

HeadersNext ==
    \/ \E n \in ChunkSizes : HeadersFeed(n)
    \/ \E p \in Probes \cup {pending} : HeadersAgain(p)
    \/ \E n \in ChunkSizes : EntryRead(n)

HeadersSpec == HeadersInit /\ [][HeadersNext]_vars

(***************************************************************************)
(* The header parsers on their own.  stamp holds the parser and its input  *)
(* (for a data descriptor also the local header of the entry and the sizes *)
(* the reader counted, as the eight bytes of a u64); decoded collects the  *)
(* results of the parser on the first 0, 1, 2, ... bytes of the input.     *)
(***************************************************************************)
\* a local file header with the given bytes in its two size fields
LocalSized(flags, csize, usize, fname, extra) ==
    Take(ZipLocal(flags, 0, 0, fname, extra), 18) \o csize \o usize
        \o Drop(ZipLocal(flags, 0, 0, fname, extra), 26)

FieldSizes == {<<0, 0, 0, 0>>, <<5, 0, 0, 0>>, ZIP64_SIZE}

\* what may follow a header in the input
Trailers == {<<>>, <<80, 75>>}

KnownExtra == LE16(1) \o LE16(1) \o <<9>>

LocalInputs ==
    {LocalSized(fl, c, u, fname, extra) \o t :
        fl \in {0, 8}, c \in FieldSizes, u \in FieldSizes, fname \in {<<>>, <<97>>},
        extra \in {<<>>, KnownExtra}, t \in Trailers}

\* the u64 sizes a reader can have counted: below and above 2^32
CountedSizes == {<<k, 0, 0, 0, h, 0, 0, 0>> : k \in {0, 5}, h \in {0, 1}}

\* the size fields of a descriptor, in the 32-bit and in the 64-bit format
WireSizes(size_len) == {Take(c, size_len) : c \in CountedSizes}

DescriptorBytes ==
    UNION {{tg \o CRC \o c \o u \o t :
               tg \in {<<>>, DATA_DESCRIPTOR_TAG}, c \in {<<5, 0, 0, 0>> \o Rep(0, len - 4)},
               u \in WireSizes(len), t \in Trailers} : len \in {4, 8}}

DescriptorHeads ==
    {LocalSized(8, c, u, <<97>>, <<>>) :
        c \in {<<0, 0, 0, 0>>, ZIP64_SIZE}, u \in {<<0, 0, 0, 0>>, ZIP64_SIZE}}

CentralInputs ==
    {ZipCentral(fl, 5, 5, fname) \o t : fl \in {0, 8}, fname \in {<<>>, <<97>>},
                                        t \in Trailers}

\* the optional fields of a member header that the flags announce
GzOptional(flags) ==
    (IF Bit(flags, 2) = 1 THEN LE16(1) \o <<7>> ELSE <<>>)
        \o (IF Bit(flags, 3) = 1 THEN <<97, 0>> ELSE <<>>)
        \o (IF Bit(flags, 4) = 1 THEN <<98, 0>> ELSE <<>>)
        \o (IF Bit(flags, 1) = 1 THEN <<1, 2>> ELSE <<>>)

MemberFlags == {0, 1, 2, 4, 8, 16, 31, 32, 64, 128, 40, 224, 255}

MemberInputs ==
    {GZIP_TAG \o GZIP_DEFLATE \o <<fl>> \o LE32(0) \o <<0, 3>> \o GzOptional(fl) \o t :
        fl \in MemberFlags, t \in Trailers}

FooterInputs == {CRC \o LE32(k) \o t : k \in {0, 5}, t \in Trailers}

NoSize == <<0, 0, 0, 0, 0, 0, 0, 0>>

Parsing(f, bytes, head, uncomp_size, comp_size) ==
    [f |-> f, bytes |-> bytes, head |-> head, uncomp_size |-> uncomp_size,
     comp_size |-> comp_size]

ParserInputs ==
    {Parsing("local", b, <<>>, NoSize, NoSize) : b \in LocalInputs}
        \cup {Parsing("descriptor", b, h, u, <<5, 0, 0, 0, c, 0, 0, 0>>) :
                  b \in DescriptorBytes, h \in DescriptorHeads, u \in CountedSizes,
                  c \in {0, 1}}
        \cup {Parsing("central", b, <<>>, NoSize, NoSize) : b \in CentralInputs}
        \cup {Parsing("member", b, <<>>, NoSize, NoSize) : b \in MemberInputs}
        \cup {Parsing("footer", b, <<>>, NoSize, NoSize) : b \in FooterInputs}

ParserInit ==
    /\ stamp \in ParserInputs
    /\ decoded = <<>>
    /\ handler = NoHandler
    /\ fx = Stream("DeflateBody", "deflate", DeflateBody, TRUE, 1)
    /\ debug_assertions = FALSE
    /\ fed = 0
    /\ reader = Fresh(fx.kind)
    /\ dedicated = NoReader
    /\ dlast = NothingSeen
    /\ agree = TRUE
    /\ iter = NoIter
    /\ emitted = <<>>
    /\ retired = NoReader
    /\ pending = <<>>
    /\ last = NoCall
    /\ rlast = NoCall
    /\ out = <<>>
    /\ parsedPos = 0
    /\ errored = FALSE
    /\ intact = TRUE
    /\ again = 0

\* the input the next call of the parser sees: one byte more than the call before
Arrived == Take(stamp.bytes, Len(decoded))

\* the parser f is the one to call, and there is input it has not seen yet
Due(f) == stamp.f = f /\ Len(decoded) <= Len(stamp.bytes)

\* the descriptor parse and the size comparison of ZipFile::parse_descriptor for an
\* entry with the given header, whose counted sizes are uncomp_size and comp_size
Compared(header, uncomp_size, comp_size, desc) ==
    [res |-> desc.res, n |-> desc.n, tag |-> desc.tag,
     compressed_size |-> desc.compressed_size,
     uncompressed_size |-> desc.uncompressed_size,
     is_zip64 |-> header.is_zip64,
     data_matches |-> desc.res = "Ok"
                          /\ data_matches(header.is_zip64, uncomp_size, comp_size, desc)]

ParseLocal ==
    /\ Due("local")
    /\ decoded' = Append(decoded, LocalFileHeader_parse(Arrived))
    /\ UNCHANGED <<stamp, handler, Streaming>>

ParseDescriptor ==
    /\ Due("descriptor")
    /\ decoded' = Append(decoded,
           Compared(LocalFileHeader_parse(stamp.head).header, stamp.uncomp_size,
                    stamp.comp_size,
                    DataDescriptor_for(LocalFileHeader_parse(stamp.head).header.is_zip64,
                                       Arrived)))
    /\ UNCHANGED <<stamp, handler, Streaming>>

ParseCentral ==
    /\ Due("central")
    /\ decoded' = Append(decoded, CentralDirHeader_parse(Arrived))
    /\ UNCHANGED <<stamp, handler, Streaming>>

ParseMember ==
    /\ Due("member")
    /\ decoded' = Append(decoded, MemberHeader_parse(Arrived))
    /\ UNCHANGED <<stamp, handler, Streaming>>

ParseFooter ==
    /\ Due("footer")
    /\ decoded' = Append(decoded, parse_footer(Arrived))
    /\ UNCHANGED <<stamp, handler, Streaming>>

ParserNext == ParseLocal \/ ParseDescriptor \/ ParseCentral \/ ParseMember \/ ParseFooter

ParserSpec == ParserInit /\ [][ParserNext]_vars

(***************************************************************************)
(* Properties.                                                             *)
(***************************************************************************)
Reading == fx.kind \in {"zip", "gzip"}

StreamOps == {"Feed", "Refeed", "ReadNext", "UseFresh"}

\* the caller has nothing left to do with the stream
RunFinished ==
    /\ again = 0
    /\ \/ last.tag \in {"EndOfFile", "Error", "Panic"}
       \/ fed = Len(fx.bytes) /\ last.tag \in {"NeedsInput", "NeedsInputOrEof"}

\* C1: for a well-formed ZIP or GZIP stream, a run that has fed its chunks to the
\* end has emitted the same output bytes as the run that hands the whole stream
\* to the first read call, however the stream was cut.
C1_ChunkIndependentOutput ==
    (Reading /\ fx.wellformed /\ RunFinished) => out = SingleCallOutput

\* a finished run of a well-formed stream that kept every input byte and still
\* emitted other bytes than the single-call run
C1_Witness ==
    Reading /\ fx.wellformed /\ RunFinished /\ intact /\ out # SingleCallOutput

\* the bytes the reader, or the reader it handed out, keeps for the next call
Stash == IF last.tag = "NextFile" THEN last.next_file.unparsed ELSE reader.unparsed

\* C2: at every return of read with NeedsInput, HasOutput or NextFile, the bytes fed
\* so far and not consumed by a parser or the inflater are exactly the bytes kept
\* in the stitch buffer (of the reader or of the handed-out reader) followed by the
\* returned unparsed_input: none is lost, none is kept twice.
C2_NoInputByteLost ==
    (/\ Reading
     /\ ~errored
     /\ last.op \in StreamOps
     /\ last.tag \in {"NeedsInput", "HasOutput", "NextFile"})
        => SubSeq(fx.bytes, parsedPos + 1, fed) = Stash \o pending

\* a first chunk one byte longer than the stitch budget, cut inside the member
\* header: the reader keeps StitchBudget bytes and nothing has been parsed
C2_Witness ==
    /\ fx.name = "GzLongExtra"
    /\ last.op = "Feed" /\ last.tag = "NeedsInput"
    /\ fed = StitchBudget + 1 /\ parsedPos = 0
    /\ Len(reader.unparsed) = StitchBudget

\* C3: when feed_input returns Stop, the output slices reported so far add up to
\* uncompressed_size, the number of bytes the decompressor wrote.
C3_NoOutputByteLost ==
    (fx.kind = "deflate" /\ last.tag = "Stop") => Len(out) = reader.inflater.uncomp_size

\* Stop after the decompressor wrote three bytes of which none was reported
C3_Witness ==
    /\ fx.kind = "deflate" /\ last.tag = "Stop"
    /\ out = <<>> /\ reader.inflater.uncomp_size = 3

\* the first four bytes of the stream at the position where ZipFile::end ran
Follows == SubSeq(fx.bytes, last.end_pos + 1, Min(last.end_pos + 4, Len(fx.bytes)))

Waiting == last.tag = "NeedsInput" /\ reader.state = "DescriptorParsed"

\* C4: the outcome of the read in which the step after the descriptor ran is fixed
\* by the four bytes that follow in the stream: NextFile (reader in End) after a
\* local file header signature, EndOfFile (reader in End) after a central directory
\* header signature, an error after anything else; until enough bytes are there
\* the reader waits in DescriptorParsed.  Only runs that have kept every byte of
\* the stream are looked at, so that the reader sees the bytes that follow.
C4_EndDependsOnFollowingBytes ==
    (fx.kind = "zip" /\ intact /\ last.op \in StreamOps /\ last.end_pos >= 0) =>
        CASE Follows = LOCAL_FILE_HEADER_TAG ->
               errored \/ Waiting \/ (last.tag = "NextFile" /\ reader.state = "End")
          [] Follows = CENTRAL_DIR_HEADER_TAG ->
               errored \/ Waiting \/ (last.tag = "EndOfFile" /\ reader.state = "End")
          [] Len(Follows) = 4 -> Waiting \/ last.tag = "Error"
          [] OTHER -> TRUE

\* NextFile although the central directory follows the descriptor
C4_Witness ==
    /\ fx.kind = "zip" /\ intact /\ last.op \in StreamOps
    /\ last.end_pos >= 0 /\ Follows = CENTRAL_DIR_HEADER_TAG
    /\ last.tag = "NextFile"

\* the filename field of the local file header at zero-based stream position pos
NameAt(pos) ==
    Slice(fx.bytes, pos + LocalFixedLen, pos + LocalFixedLen + U16(fx.bytes, pos + 26))

HeaderEndAt(pos) ==
    pos + LocalFixedLen + U16(fx.bytes, pos + 26) + U16(fx.bytes, pos + 28)

\* C5: whenever ZipFile::read returns NextFile, next_file is in HeaderParsed with the
\* next entry's header, filename() on it is Some(the next entry's name), and the
\* returned unparsed_input starts right after that header.
C5_NextFileHeaderParsed ==
    (fx.kind = "zip" /\ intact /\ last.op \in StreamOps /\ last.tag = "NextFile") =>
        /\ last.next_file.state = "HeaderParsed"
        /\ filename(last.next_file) = <<TRUE, NameAt(last.end_pos)>>
        /\ pending = SubSeq(fx.bytes, HeaderEndAt(last.end_pos) + 1, fed)

\* NextFile with a reader in Init that has no filename
C5_Witness ==
    /\ fx.kind = "zip" /\ intact /\ last.op \in StreamOps /\ last.tag = "NextFile"
    /\ last.next_file.state = "Init"
    /\ filename(last.next_file) = <<FALSE>>

\* C6: when GZipFile::read returns NextFile, next_file holds the parsed header of the
\* next member, and the read that feeds it the returned unparsed_input does not
\* fail.
C6_GzipNextFilePreSeeded ==
    (fx.kind = "gzip" /\ fx.wellformed) =>
        /\ (last.op \in StreamOps /\ last.tag = "NextFile")
               => (last.next_file.state = "HeaderParsed" /\ last.next_file.header.present)
        /\ last.op = "ReadNext" => last.tag \notin {"Error", "Panic"}

\* the read that feeds the returned unparsed_input to next_file fails
C6_Witness ==
    /\ fx.kind = "gzip" /\ fx.wellformed
    /\ last.op = "ReadNext" /\ last.tag = "Error" /\ last.err = "InvalidMemberHeader"

\* C7: for a single-member GZIP stream, once the whole stream is fed and no output is
\* pending, read has returned NeedsInputOrEof carrying a fresh reader in Init, and a
\* read with empty input on the reader then in End returns EndOfFile.
C7_SingleMemberEnds ==
    (fx.kind = "gzip" /\ fx.wellformed /\ fx.members = 1) =>
        /\ (last.op \in {"Feed", "Refeed"} /\ fed = Len(fx.bytes) /\ last.tag # "HasOutput")
               => (last.tag = "NeedsInputOrEof" /\ last.next_file = gzip_start_stream)
        /\ (last.op = "ReadAgain" /\ last.before = "End" /\ last.probe = <<>>)
               => last.tag = "EndOfFile"

\* the whole single-member stream is fed and the reader still asks for input
C7_Witness ==
    /\ fx.kind = "gzip" /\ fx.wellformed /\ fx.members = 1
    /\ last.op \in {"Feed", "Refeed"} /\ fed = Len(fx.bytes)
    /\ last.tag = "NeedsInput"

\* a recorded read on a reader that was in state st returned EndOfFile and did
\* nothing else
Absorbed(l, r) ==
    /\ l.tag = "EndOfFile"
    /\ r.state = "End"
    /\ l.parsed = 0
    /\ l.output = <<>>
    /\ ~l.touched

\* C8: a read on a ZipFile in End returns EndOfFile, leaves the state End, consumes
\* no input and produces no output, for empty and for non-empty input.
C8_ZipEndAbsorbing ==
    fx.kind = "zip" =>
        /\ (last.op = "ReadAgain" /\ last.before = "End") => Absorbed(last, reader)
        /\ (rlast.op = "ReadRetired" /\ rlast.before = "End") => Absorbed(rlast, retired)

C8_Witness ==
    /\ fx.kind = "zip"
    /\ last.op = "ReadAgain" /\ last.before = "End" /\ last.probe # <<>>
    /\ rlast.op = "ReadRetired" /\ rlast.before = "End" /\ rlast.probe = <<>>

\* C9: every error read returns leaves the reader in the Error state, and an
\* invalid DEFLATE stream is reported as InvalidDeflateStream.
C9_ErrorLeavesErrorState ==
    (Reading /\ last.op \in StreamOps /\ last.tag = "Error") =>
        /\ reader.state = "Error"
        /\ reader.inflater.decomp = "bad" => last.err = "InvalidDeflateStream"

\* InvalidDeflateStream returned by a reader that stays in HeaderParsed
C9_Witness ==
    /\ Reading /\ last.op \in StreamOps
    /\ last.tag = "Error" /\ last.err = "InvalidDeflateStream"
    /\ reader.state = "HeaderParsed"

\* a recorded read on a reader that was in Eof panicked without doing anything
Fatal(l) ==
    /\ l.tag = "Panic"
    /\ l.parsed = 0
    /\ l.output = <<>>

\* C10: a read on a GZipFile that has returned EndOfFile (state Eof) panics: it
\* returns no State and consumes no input.
C10_GzipReadAfterEofPanics ==
    fx.kind = "gzip" =>
        /\ (last.tag = "EndOfFile" => reader.state = "Eof")
        /\ (last.op = "ReadAgain" /\ last.before = "Eof") => Fatal(last)
        /\ (rlast.op = "ReadRetired" /\ rlast.before = "Eof") => Fatal(rlast)

C10_Witness ==
    /\ fx.kind = "gzip"
    /\ last.op = "ReadAgain" /\ last.before = "Eof" /\ last.tag = "Panic"
    /\ last.probe # <<>>

\* MaxSteps parse steps are enough: no read call of a run is cut short
NeverDiverges == last.tag # "Diverge" /\ rlast.tag # "Diverge"

\* C11: File::read returns NeedsInput and keeps the bytes while fewer than four
\* bytes of the stream have been fed; once four are fed the reader it has become
\* is fixed by the first four bytes alone (a ZipFile after 50 4b 03 04, a GZipFile
\* after 1f 8b 08 and any flags byte, the error UnknownFileFormat otherwise),
\* however the four bytes were split over the calls.
C11_DetectsOnFirstFourBytes ==
    (fx.kind = "auto" /\ last.op \in StreamOps) =>
        IF fed < NEEDED_BYTES
        THEN last.tag = "NeedsInput" /\ reader.kind = "init"
                 /\ reader.unparsed = Take(fx.bytes, fed)
        ELSE CASE Take(fx.bytes, 4) = <<80, 75, 3, 4>> -> reader.kind = "zip"
               [] Take(fx.bytes, 3) = <<31, 139, 8>> -> reader.kind = "gzip"
               [] OTHER -> /\ last.tag = "Error" /\ last.err = "UnknownFileFormat"
                           /\ reader.kind = "init"

\* a GZipFile detected by the read that got the fifth byte: with chunks of at most
\* MaxSmallChunk bytes the first four bytes came in two calls or more
C11_Witness ==
    /\ fx.kind = "auto" /\ last.op = "Feed" /\ last.before = "Init"
    /\ fed = NEEDED_BYTES + 1 /\ reader.kind = "gzip"

\* C12: as long as the caller of a File and the caller of the dedicated reader of
\* the stream's format make the same calls, they get the same returns: tag, error,
\* output slice, unparsed_input and handed-out reader.
C12_FileEqualsDedicated ==
    (fx.kind = "auto" /\ Format(fx) # "none") => agree

\* the dedicated reader has returned NeedsInputOrEof where the File returned
\* something else
C12_Witness ==
    /\ fx.kind = "auto" /\ ~agree
    /\ dlast.tag # last.tag

\* a run of parse_descriptor that did not ask for more input
Described == fx.kind = "zip" /\ last.op \in StreamOps /\ last.desc.at >= 0
                 /\ last.desc.state # "Inflated"

\* the outcome d of parse_descriptor on the bytes i, by the three cases: len is the
\* width of a size field, off the offset of the compressed size
DescriptorJudged(d, i, off, len) ==
    IF /\ Slice(i, off, off + len) = Take(LE64(d.comp_size), len)
       /\ Slice(i, off + len, off + 2 * len) = Take(LE64(d.uncomp_size), len)
    THEN d.n = off + 2 * len /\ d.state = "DescriptorParsed"
    ELSE IF off = 4 /\ ~d.deferred_sizes
    THEN d.n = 0 /\ d.state = "DescriptorParsed"
    ELSE /\ d.n = 0 /\ d.state = "Error"
         /\ last.tag = "Error" /\ last.err = "InvalidDataDescriptor"

\* C13: when parse_descriptor has run on a complete descriptor, then: if the sizes
\* in the stream equal the inflater's totals the descriptor's bytes were consumed
\* and the state became DescriptorParsed; if they differ and there is neither a
\* signature nor deferred_sizes, no byte was consumed and the state became
\* DescriptorParsed; otherwise the read failed with InvalidDataDescriptor.  ZipFile::end
\* ran, if it did in the same call, right behind the consumed bytes.
C13_DescriptorValidation ==
    (Described /\ intact) =>
        /\ DescriptorJudged(last.desc, Drop(fx.bytes, last.desc.at),
                            IF Slice(fx.bytes, last.desc.at, last.desc.at + 4)
                                   = <<80, 75, 7, 8>> THEN 8 ELSE 4,
                            IF last.desc.is_zip64 THEN 8 ELSE 4)
        /\ last.end_pos >= 0 => last.end_pos = last.desc.at + last.desc.n

\* sizes that differ where no descriptor was required: nothing consumed, and the
\* same bytes were then found to be the next local file header
C13_Witness ==
    /\ Described /\ intact /\ last.desc.n = 0 /\ last.desc.state = "DescriptorParsed"
    /\ last.tag = "NextFile" /\ last.end_pos = last.desc.at

\* C14: on the archive whose local header has an extra-field entry with an unknown
\* header id, no read returns an error, and once the reader is in HeaderParsed the
\* header holds both entries of the block in order.
C14_UnknownExtraFieldParses ==
    (fx.name = "ZipUnknownExtra" /\ last.op \in StreamOps) =>
        /\ last.tag # "Error"
        /\ reader.state = "HeaderParsed" => reader.header.extra_ids = <<21589, 39321>>

\* the whole local header was fed and kept, and the read failed on it
C14_Witness ==
    /\ fx.name = "ZipUnknownExtra" /\ intact /\ last.op = "Feed"
    /\ last.tag = "Error" /\ last.err = "InvalidLocalFileHeader"
    /\ reader.state = "Error" /\ out = <<>>

\* C15: no call, on an inflater or on a ZIP or GZIP reader, has returned HasOutput
\* with an empty output slice.
C15_HasOutputNeverEmpty ==
    /\ last.tag = "HasOutput" => Len(last.output) > 0
    /\ rlast.tag = "HasOutput" => Len(rlast.output) > 0

\* HasOutput from a call that filled the window to its end; the cursor is back at 0
C15_Witness ==
    /\ last.tag = "HasOutput" /\ reader.inflater.out_pos = 0
    /\ reader.inflater.owed > 0 /\ Len(reader.inflater.written) = WindowSize
    /\ Len(last.output) = WindowSize - reader.inflater.last_out_pos

C16_OutputKeepsHeaderParsed ==
    /\ (fx.kind # "deflate" /\ last.op \in StreamOps /\ last.tag = "HasOutput") =>
           /\ reader.state = "HeaderParsed"
           /\ last.output = get_output(reader.inflater)
           /\ reader.unparsed = <<>>
           /\ intact => /\ pending = SubSeq(fx.bytes, parsedPos + 1, fed)
                        /\ reader.inflater.decomp = "done" => fx.bytes[parsedPos] = EOB
    /\ (fx.kind # "deflate" /\ last.op = "Refeed") => last.before = "HeaderParsed"

\* the read after HasOutput took nothing more of the body and went on behind it
C16_Witness ==
    /\ fx.name = "ZipTwo" /\ last.op = "Refeed" /\ last.before = "HeaderParsed"
    /\ last.tag = "NextFile" /\ intact /\ out = <<65, 66>>

\* C17: when the caller's loop over read has come to a return that is not HasOutput,
\* read_with (read_internal_iter for a File), given the input the loop started on,
\* has called the callback with the same slices in the same order, returned the same
\* state with the same unparsed_input and next_file, and left the reader in the same
\* state; it never returns HasOutput and never panics in assert_no_output.
C17_ReadWithIsTheLoop ==
    (fx.kind # "deflate" /\ last.op \in StreamOps) =>
        /\ iter.tag # "HasOutput"
        /\ last.tag # "HasOutput" =>
               /\ iter.chunks = emitted
               /\ iter.tag = last.tag /\ iter.err = last.err
               /\ iter.next_file = last.next_file
               /\ iter.unparsed_input = pending
               /\ iter.reader = reader

\* a loop of two reads, one slice, ending in NextFile
C17_Witness ==
    /\ fx.name = "ZipTwo" /\ last.op = "Refeed" /\ last.tag = "NextFile"
    /\ iter.tag = "NextFile" /\ iter.chunks = <<(<<65, 66>>)>> /\ emitted = iter.chunks

IsLeapYear(year) == year % 4 = 0 /\ (year % 100 # 0 \/ year % 400 = 0)

MonthLength(year, m) ==
    IF m = 2 THEN (IF IsLeapYear(year) THEN 29 ELSE 28)
    ELSE IF m \in {4, 6, 9, 11} THEN 30 ELSE 31

ValidDate(y, m, d) == m \in 1..12 /\ d \in 1..MonthLength(1980 + y, m)

RECURSIVE DaysBeforeMonth(_, _)
DaysBeforeMonth(year, m) ==
    IF m = 1 THEN 0 ELSE DaysBeforeMonth(year, m - 1) + MonthLength(year, m - 1)

\* the days from 1980-01-01 to the valid date d.m.(1980 + y)
CalendarDays(y, m, d) ==
    365 * y + Cardinality({k \in 1980..(1980 + y - 1) : IsLeapYear(k)})
        + DaysBeforeMonth(1980 + y, m) + d - 1

\* C18: days_since_msdos_epoch(y, m, d), for y in 0..127, returns the number of days
\* from 1980-01-01 to the date when the date exists in the Gregorian calendar, and
\* an error when it does not (month 0 or above 12, day 0, a day beyond the month's
\* length, 29 February 2100).
C18_DaysSinceMsdosEpoch ==
    (stamp.f = "days" /\ decoded.done) =>
        IF ValidDate(stamp.y, stamp.m, stamp.d)
        THEN decoded.res = "Ok" /\ decoded.days = CalendarDays(stamp.y, stamp.m, stamp.d)
        ELSE decoded.res = "Err"

\* 1 March 2100, the day after the leap day that does not exist
C18_Witness ==
    /\ stamp.f = "days" /\ decoded.done /\ stamp.y = 120 /\ stamp.m = 3 /\ stamp.d = 1
    /\ decoded.res = "Ok" /\ decoded.days = 43889

\* the time of day the time word t states, in seconds; -1 if it states none
TimeOfDay(t) ==
    IF t \div 2048 >= 24 \/ (t \div 32) % 64 >= 60 \/ 2 * (t % 32) >= 60 THEN -1
    ELSE 3600 * (t \div 2048) + 60 * ((t \div 32) % 64) + 2 * (t % 32)

\* the outcome r of parse_msdos_datetime on the time word t and the date with year
\* offset y, month m and day d
DatetimeJudged(r, t, y, m, d) ==
    IF TimeOfDay(t) < 0 \/ ~ValidDate(y, m, d)
    THEN r.res = "Failure" /\ r.err = "InvalidDateOrTime"
    ELSE r.res = "Ok" /\ r.days = 3652 + CalendarDays(y, m, d) /\ r.secs = TimeOfDay(t)

\* C19: parse_msdos_datetime reports that it needs more on fewer than 4 bytes; on 4
\* bytes it fails with InvalidDateOrTime when the time word states hours >= 24,
\* minutes >= 60 or seconds >= 60 or the date does not exist, and returns otherwise
\* UNIX_EPOCH + 3652 days + the days since 1980-01-01 + the seconds of the time
\* word (bits 0..4 seconds / 2, bits 5..10 minutes, bits 11..15 hours).
C19_ParseMsdosDatetime ==
    (stamp.f = "datetime" /\ decoded.done) =>
        IF Len(stamp.bytes) < 4 THEN decoded.res = "Incomplete"
        ELSE DatetimeJudged(decoded, stamp.bytes[1] + 256 * stamp.bytes[2],
                            stamp.bytes[4] \div 2,
                            (stamp.bytes[3] + 256 * stamp.bytes[4]) \div 32 % 16,
                            stamp.bytes[3] % 32)

\* the first input of test_parse_msdos_datetime: 2018-04-10 00:45:58
C19_Witness ==
    /\ stamp.f = "datetime" /\ stamp.bytes = <<189, 5, 138, 76>> /\ decoded.done
    /\ decoded.res = "Ok" /\ decoded.days = 17631 /\ decoded.secs = 2758

\* C21: after every call the cursors of the reader's inflater are inside the window:
\* 0 <= last_out_pos < window length and 0 <= out_pos < window length (out_pos is set
\* back to 0 when it reaches the end), and the window is at least 32 KiB long.
C21_CursorsInsideWindow ==
    /\ reader.inflater.last_out_pos >= 0 /\ reader.inflater.last_out_pos < WindowSize
    /\ reader.inflater.out_pos >= 0 /\ reader.inflater.out_pos < WindowSize
    /\ WindowSize >= 32 * 1024

\* a call wrote up to the last byte of the window and the cursor is back at 0
C21_Witness ==
    /\ fx.kind = "deflate" /\ last.op \in StreamOps
    /\ Len(reader.inflater.written) = WindowSize /\ reader.inflater.out_pos = 0

\* C22: whenever feed_input returns NeedsInput it has consumed every byte passed to
\* it: the returned unparsed_input is empty, so every byte fed so far is consumed.
C22_NeedsInputConsumedAll ==
    (fx.kind = "deflate" /\ last.op \in StreamOps /\ last.tag = "NeedsInput") =>
        /\ parsedPos = fed
        /\ reader.inflater.comp_size = fed

\* NeedsInput from a call that was given bytes and wrote some
C22_Witness ==
    /\ fx.kind = "deflate" /\ last.op = "Feed" /\ last.tag = "NeedsInput"
    /\ last.parsed > 1 /\ Len(reader.inflater.written) > 1

\* C23: the inflater's compressed size is the sum over the calls of the bytes
\* each call consumed (input length minus unparsed length) and its
\* uncompressed size is the total number of bytes produced; when feed_input
\* returns Stop, the unparsed input starts right after the end of the DEFLATE
\* stream; the sizes a reader records in its Inflated state are those totals.
C23_SizeAccounting ==
    /\ (fx.kind = "deflate" /\ last.op \in StreamOps) =>
           /\ reader.inflater.comp_size = parsedPos
           /\ reader.inflater.uncomp_size = Len(reader.inflater.written)
           /\ last.tag = "Stop" =>
                  /\ parsedPos >= 1
                  /\ fx.bytes[parsedPos] = EOB
                  /\ \A k \in 1..(parsedPos - 1) : fx.bytes[k] # EOB
    /\ (fx.kind \in {"zip", "gzip"} /\ reader.state = "Inflated") =>
           /\ reader.comp_size = reader.inflater.comp_size
           /\ reader.uncomp_size = reader.inflater.uncomp_size
           /\ reader.uncomp_size = Len(reader.inflater.written)

C23_Witness ==
    /\ fx.kind = "deflate" /\ last.op \in StreamOps /\ last.tag = "Stop"
    /\ reader.inflater.comp_size > last.parsed
    /\ parsedPos < fed
    /\ reader.inflater.uncomp_size = 3

\* C24: whenever read returns HasOutput or NextFile the view was Long and the
\* stitch buffer empty when assert_take_long was called, and no call of read
\* panics in assert_take_long.
C24_TakeLongNeverPanics ==
    /\ last.err # "assert_take_long"
    /\ rlast.err # "assert_take_long"
    /\ (fx.kind \in {"zip", "gzip", "auto"} /\ last.tag \in {"HasOutput", "NextFile"}) =>
           /\ last.stitch = 0
           /\ last.op \in StreamOps => reader.unparsed = <<>>

C24_Witness ==
    /\ fx.kind \in {"zip", "gzip"} /\ last.op \in StreamOps
    /\ last.tag \in {"HasOutput", "NextFile"}
    /\ last.stored > 0 /\ last.parsed > last.stored

\* C25: whenever a parse step of read reports n > 0 consumed bytes, orig_stored < n
\* holds, so consumed never panics and n - orig_stored never underflows.
C25_ConsumedExceedsStored ==
    /\ ~last.underrun /\ last.err # "consumed"
    /\ ~rlast.underrun /\ rlast.err # "consumed"

\* a build without debug assertions panics in consumed
C25_Witness ==
    /\ last.op \in StreamOps /\ last.err = "consumed" /\ last.underrun
    /\ ~debug_assertions /\ last.stored > 1

\* C26: extend_input copies the next at most 80 bytes of the input that are neither
\* stored nor consumed into the stitch buffer and returns the number of bytes it
\* added; it returns zero only when there is no more input to stitch.
C26_ExtendInputReturnsAdded ==
    handler.op = "extend_input" =>
        LET b == handler.before
            start == Len(b.storage) - b.orig_stored + b.input_consumed
            avail == Len(b.orig_input) - start
            added == Len(handler.ih.storage) - Len(b.storage)
        IN  /\ added = Min(StitchBudget, avail)
            /\ handler.ih.storage = b.storage \o Slice(b.orig_input, start, start + added)
            /\ handler.ret = added
            /\ handler.ret = 0 => avail = 0

\* extend_input returned 0 on the first read's Long view and added bytes
C26_Witness ==
    /\ handler.op = "extend_input" /\ handler.ret = 0
    /\ handler.before.storage = <<>> /\ handler.prior.long
    /\ Len(handler.ih.storage) = StitchBudget
    /\ Len(handler.ih.orig_input) > StitchBudget

\* what extend_input does: the bytes are copied as C26 says, the length returned
\* is 0 whenever the stitch buffer was empty before the call
C26_CopiesTheNextBytes ==
    handler.op = "extend_input" =>
        LET b == handler.before
            start == Len(b.storage) - b.orig_stored + b.input_consumed
            avail == Len(b.orig_input) - start
            added == Len(handler.ih.storage) - Len(b.storage)
        IN  /\ added = Min(StitchBudget, avail)
            /\ handler.ih.storage = b.storage \o Slice(b.orig_input, start, start + added)
            /\ handler.ret = IF b.storage = <<>> THEN 0 ELSE added

\* C27: take_storage moves the reader's retained bytes S into the handler
\* (orig_stored = Len(S), the reader's buffer left empty); if orig_stored > 0 the
\* view is Short, S followed by the first min(80, Len(input)) bytes of the input;
\* if orig_stored = 0 the view is Long(input) and nothing is copied.
C27_TakeStorage ==
    handler.op = "take_storage" =>
        LET S == handler.before.storage
            input == handler.before.orig_input
        IN  /\ handler.ih.orig_stored = Len(S)
            /\ handler.ih.orig_input = input
            /\ handler.ih.input_consumed = 0
            /\ handler.reader_storage = <<>>
            /\ IF Len(S) > 0
               THEN /\ handler.view = Short(S \o Take(input, Min(StitchBudget, Len(input))))
                    /\ handler.ih.storage = handler.view.bytes
               ELSE /\ handler.view = Long(input)
                    /\ handler.ih.storage = <<>>

C27_Witness ==
    /\ handler.op = "take_storage" /\ handler.reads = MaxReads
    /\ handler.ih.orig_stored > 0
    /\ Len(handler.ih.orig_input) > StitchBudget
    /\ Len(handler.view.bytes) = handler.ih.orig_stored + StitchBudget

\* C28: consumed(0) changes nothing and returns the view there was; consumed(n)
\* with n > 0 (when its assertion passes) adds n - orig_stored to input_consumed,
\* clears the storage, sets orig_stored to 0 and returns Long(input[input_consumed..]),
\* which starts at the first byte of the input that the parser has not consumed.
C28_Consumed ==
    (handler.op = "consumed" /\ handler.ok) =>
        LET b == handler.before
            n == handler.arg
        IN  IF n = 0
            THEN handler.ih = b /\ handler.view = handler.prior
            ELSE /\ handler.ih.input_consumed = b.input_consumed + n - b.orig_stored
                 /\ handler.ih.storage = <<>>
                 /\ handler.ih.orig_stored = 0
                 /\ handler.ih.orig_input = b.orig_input
                 /\ handler.view = Long(Drop(b.orig_input, handler.ih.input_consumed))
                 /\ Take(handler.view.bytes, Len(handler.prior.bytes) - n)
                        = Drop(handler.prior.bytes, n)

C28_Witness ==
    /\ handler.op = "consumed" /\ handler.ok
    /\ handler.before.orig_stored > 0 /\ handler.arg > handler.before.orig_stored + 1
    /\ ~handler.prior.long /\ handler.arg < Len(handler.prior.bytes)
    /\ Len(handler.view.bytes) > StitchBudget

Rank(state) ==
    CASE state = "Init" -> 0
      [] state = "HeaderParsed" -> 1
      [] state = "Inflated" -> 2
      [] state = "DescriptorParsed" -> 3
      [] state = "End" -> 4
      [] OTHER -> -1

\* one parse step: the state stays, moves on by one, or becomes Error
Advances(a, b) == b = "Error" \/ (Rank(a) >= 0 /\ Rank(b) \in {Rank(a), Rank(a) + 1})

Visited(l) == <<l.before>> \o l.path

\* the states a call went through, from the state it found to the state it left
StatesAdvance(l) ==
    /\ \A i \in 1..Len(l.path) : Advances(Visited(l)[i], Visited(l)[i + 1])
    /\ l.tag # "Panic" => l.after = Visited(l)[Len(l.path) + 1] /\ l.after # "Sentinel"

\* C29: the state of a ZipFile only advances along Init, HeaderParsed, Inflated,
\* DescriptorParsed, End, or becomes Error: over the steps of every read and from
\* one read to the next it never moves backwards, never skips a state on the way
\* to End, and it is never Sentinel when read returns.
C29_StatesOnlyAdvance ==
    /\ [](fx.kind = "zip" =>
             /\ last.op \in StreamOps \cup {"ReadAgain"} => StatesAdvance(last)
             /\ rlast.op = "ReadRetired" => StatesAdvance(rlast))
    /\ [][(fx.kind = "zip" /\ last'.op \in {"Feed", "Refeed", "ReadAgain"}
                /\ last'.tag # "Panic") =>
              \/ reader'.state = "Error"
              \/ Rank(reader'.state) >= Rank(reader.state)]_vars

C29_Witness ==
    /\ fx.kind = "zip" /\ last.op = "Feed" /\ last.tag = "NextFile"
    /\ last.before = "Init" /\ last.after = "End"
    /\ last.path = <<"HeaderParsed", "Inflated", "DescriptorParsed", "End">>

\* what C30 says of one run of inflate on a header that declares an empty stream
EmptyJudged(e) ==
    /\ e.look < 4 =>
           /\ e.res = "NeedsInput" /\ e.n = 0
           /\ e.state = "HeaderParsed" /\ e.untouched
    /\ (e.look >= 4 /\ e.signed) =>
           /\ e.res = "Continue" /\ e.n = 0
           /\ e.state = "Inflated" /\ e.comp_size = 0 /\ e.uncomp_size = 0
           /\ e.untouched

EmptiesJudged(l) == \A i \in 1..Len(l.empties) : EmptyJudged(l.empties[i])

\* C30: in HeaderParsed with a header that gives csize = 0, usize = 0 and
\* deferred_sizes = false, a view of fewer than 4 bytes makes the reader ask for
\* more input without consuming a byte or calling the inflater; a view that starts
\* with the local-file-header signature makes it skip the inflater and move to
\* Inflated with sizes (0, 0), consuming 0 bytes.
C30_EmptyStreamDetection == EmptiesJudged(last) /\ EmptiesJudged(rlast)

C30_Witness ==
    /\ fx.name = "ZipEmptyFirst" /\ last.op = "Feed" /\ last.tag = "NextFile"
    /\ last.stored \in 1..3 /\ last.before = "HeaderParsed"
    /\ Len(last.empties) = 1 /\ last.empties[1].signed /\ last.empties[1].look > 4

\* C31: for an entry whose header gives csize = 0, usize = 0 and deferred_sizes =
\* false, no byte of the stream is passed to the inflater and the entry completes
\* without error, whether another local file header or the central directory
\* follows it.
C31_EmptyEntryNeverInflated ==
    (fx.kind = "zip" /\ fx.wellformed /\ last.op \in StreamOps) =>
        /\ \A i \in 1..Len(last.empties) : last.empties[i].untouched
        /\ Len(last.empties) > 0 => last.tag \notin {"Error", "Panic"}
        /\ Len(last.empties) > 0 => last.output = <<>>

\* the central directory of an archive whose last entry is empty reaches the inflater
C31_Witness ==
    /\ fx.name = "ZipEmptyLast" /\ last.op = "Feed" /\ last.before = "Init"
    /\ Len(last.empties) = 1 /\ ~last.empties[1].untouched
    /\ ~last.empties[1].signed /\ last.empties[1].look >= 4 /\ last.empties[1].n > 0

\* C32: the size comparison of parse_descriptor is modulo 2^32 for a header that is not
\* ZIP64 (only the low four bytes of each counted size are compared with the
\* descriptor's 32-bit field, so a counted size of 2^32 + k matches a field of k) and
\* exact for a ZIP64 header (all eight bytes of each counted size equal the field)
C32_DescriptorSizeComparison ==
    stamp.f = "descriptor" =>
        \A j \in 1..Len(decoded) :
            decoded[j].res = "Ok" =>
                (decoded[j].data_matches <=>
                    IF decoded[j].is_zip64
                    THEN /\ decoded[j].uncompressed_size = stamp.uncomp_size
                         /\ decoded[j].compressed_size = stamp.comp_size
                    ELSE /\ decoded[j].uncompressed_size = SubSeq(stamp.uncomp_size, 1, 4)
                         /\ decoded[j].compressed_size = SubSeq(stamp.comp_size, 1, 4))

\* an entry of 2^32 + 5 bytes whose 32-bit descriptor says 5 is taken as matching
C32_Witness ==
    /\ stamp.f = "descriptor"
    /\ stamp.uncomp_size = <<5, 0, 0, 0, 1, 0, 0, 0>>
    /\ Len(decoded) > 0
    /\ decoded[Len(decoded)].res = "Ok"
    /\ ~decoded[Len(decoded)].is_zip64
    /\ decoded[Len(decoded)].uncompressed_size = <<5, 0, 0, 0>>
    /\ decoded[Len(decoded)].data_matches

\* a size field of the local header bytes h holds 0xFFFFFFFF
MarkedZip64(h) ==
    \/ SubSeq(h, 19, 22) = <<255, 255, 255, 255>>
    \/ SubSeq(h, 23, 26) = <<255, 255, 255, 255>>

\* C33: a parsed local file header has is_zip64 exactly when its compressed_size or its
\* uncompressed_size field is 0xFFFFFFFF, and the data descriptor of an entry is read in
\* the 64-bit wire format (two 8-byte sizes) exactly when the header is ZIP64, in the
\* 32-bit format (two 4-byte sizes) otherwise
C33_Zip64Selection ==
    \A j \in 1..Len(decoded) :
        decoded[j].res = "Ok" =>
            /\ stamp.f = "local" => (decoded[j].header.is_zip64 <=> MarkedZip64(stamp.bytes))
            /\ stamp.f = "descriptor" =>
                   /\ decoded[j].is_zip64 <=> MarkedZip64(stamp.head)
                   /\ Len(decoded[j].compressed_size)
                          = (IF MarkedZip64(stamp.head) THEN 8 ELSE 4)
                   /\ Len(decoded[j].uncompressed_size)
                          = (IF MarkedZip64(stamp.head) THEN 8 ELSE 4)
                   /\ decoded[j].n = (IF decoded[j].tag THEN 4 ELSE 0) + 4
                                         + (IF MarkedZip64(stamp.head) THEN 16 ELSE 8)

\* a header with only the compressed size at 0xFFFFFFFF, and its signed descriptor of
\* 4 + 4 + 8 + 8 bytes
C33_Witness ==
    /\ stamp.f = "descriptor"
    /\ SubSeq(stamp.head, 19, 22) = <<255, 255, 255, 255>>
    /\ SubSeq(stamp.head, 23, 26) = <<0, 0, 0, 0>>
    /\ Len(decoded) > 0
    /\ decoded[Len(decoded)].res = "Ok"
    /\ decoded[Len(decoded)].is_zip64
    /\ decoded[Len(decoded)].n = 24

\* a reserved bit (5, 6 or 7) of the flags byte of the member header bytes h is set
ReservedFlagSet(h) == h[4] \div 32 > 0

\* C34: a GZIP member header whose flags byte has a reserved bit (5 to 7) set is never
\* parsed: MemberHeader::parse does not succeed on it however much of it has arrived,
\* and with the ten fixed bytes there it is refused as InvalidMemberHeader
C34_ReservedFlagsRejected ==
    (stamp.f = "member" /\ ReservedFlagSet(stamp.bytes)) =>
        \A j \in 1..Len(decoded) :
            /\ decoded[j].res # "Ok"
            /\ j > MemberFixedLen =>
                   (decoded[j].res \in {"Error", "Failure"}
                        /\ decoded[j].err = "InvalidMemberHeader")

\* the header 1f 8b 08 e0 ... with all three reserved bits set is parsed
C34_Witness ==
    /\ stamp.f = "member"
    /\ stamp.bytes[4] = 224
    /\ Len(decoded) > 0
    /\ decoded[Len(decoded)].res = "Ok"
    /\ decoded[Len(decoded)].n = MemberFixedLen

\* C35: the header parsers are restartable: when a parser (local file header, data
\* descriptor, central directory header, GZIP member header, GZIP footer) succeeds on
\* some input and consumes k bytes, it answers Incomplete on every input shorter than
\* k bytes of the same stream (never success, never an error), and on every longer
\* input of the same stream it returns the same value with the same k
C35_ParsersRestartable ==
    \A j \in 1..Len(decoded) :
        decoded[j].res = "Ok" =>
            /\ decoded[j].n <= j - 1
            /\ \A i \in 1..Len(decoded) :
                   IF i - 1 < decoded[j].n THEN decoded[i].res = "Incomplete"
                   ELSE decoded[i] = decoded[j]

\* a member header with a file name, called on every length up to two bytes past it
C35_Witness ==
    /\ stamp.f = "member"
    /\ Len(decoded) = Len(stamp.bytes) + 1
    /\ decoded[Len(decoded)].res = "Ok"
    /\ decoded[Len(decoded)].header.has_filename
    /\ decoded[Len(decoded)].n = Len(stamp.bytes) - 2
    /\ decoded[Len(decoded) - 2].res = "Ok"
    /\ decoded[Len(decoded) - 3].res = "Incomplete"

\* try_inner_iter returned what inner_iter returned
TriedLikeInnerIter(t) ==
    /\ t.chunks = iter.chunks
    /\ t.state = iter.reader.inflater
    /\ t.unparsed_input = iter.unparsed_input
    /\ IF t.tag = "Err" THEN iter.tag = "Error" ELSE t.tag = iter.tag

\* C36: when a loop over feed_input (each HasOutput followed by a call on the returned
\* unparsed_input) has come to a return that is not HasOutput, inner_iter, given the
\* input the loop started on, has called the callback with the same slices in the same
\* order, returned the same state with the same unparsed_input and left the inflater in
\* the same state; it never returns HasOutput.  try_inner_iter does the same while its
\* callback succeeds, and when the callback fails on its k-th call it returns that
\* error right there: k slices delivered, the inflater as that feed_input left it.
C36_InnerIterIsTheLoop ==
    (fx.kind = "deflate" /\ last.op \in StreamOps) =>
        /\ iter.tag \notin {"HasOutput", "Diverge"}
        /\ last.tag # "HasOutput" =>
               /\ iter.chunks = emitted
               /\ iter.tag = last.tag /\ iter.err = last.err
               /\ iter.unparsed_input = last.unparsed_input
               /\ iter.reader = reader
        /\ \A k \in 0..MaxCallbacks :
               IF k = 0 \/ k > Len(iter.chunks)
               THEN TriedLikeInnerIter(iter.tried[k])
               ELSE /\ iter.tried[k].tag = "UserErr"
                    /\ iter.tried[k].chunks = SubSeq(iter.chunks, 1, k)
                    /\ (last.tag = "HasOutput" /\ Len(emitted) = k) =>
                           /\ iter.tried[k].chunks = emitted
                           /\ iter.tried[k].state = reader.inflater

\* a loop of three calls, two slices, ending in Stop; a callback failing on the second
\* slice ends try_inner_iter there
C36_Witness ==
    /\ fx.kind = "deflate" /\ last.op = "Refeed" /\ last.tag = "Stop"
    /\ Len(emitted) = 2 /\ iter.chunks = emitted /\ iter.tag = "Stop"
    /\ iter.tried[2].tag = "UserErr" /\ iter.tried[1].chunks = <<emitted[1]>>

\* the states a call of read is not made in once the reader is done or has failed
TerminalStates == {"End", "Eof", "Error"}

\* C37: a call of read on a ZIP or GZIP reader that is not in a terminal state returns
\* after finitely many parse steps: the loop of read never runs out of the MaxSteps
\* iterations it is given, and no iteration goes round again having taken no byte and
\* left the state where it was (an iteration takes input, moves the state on, has new
\* bytes stitched to the storage, or returns)
C37_ReadTerminates ==
    /\ (fx.kind # "deflate" /\ last.op # "Start" /\ last.before \notin TerminalStates) =>
           /\ last.tag # "Diverge"
           /\ ~last.stalled
           /\ Len(last.path) < MaxSteps
    /\ (fx.kind # "deflate" /\ rlast.op # "Start" /\ rlast.before \notin TerminalStates) =>
           /\ rlast.tag # "Diverge"
           /\ ~rlast.stalled
           /\ Len(rlast.path) < MaxSteps
    /\ iter.tag # "Diverge"

\* a call that went through all the states of an entry and on into the next one: a
\* header, the body, a descriptor that is not there, the end of the entry
C37_Witness ==
    /\ fx.kind = "zip" /\ last.op = "Feed" /\ last.before = "Init"
    /\ Len(last.path) >= 4 /\ last.tag = "NextFile"
    /\ last.desc.at >= 0 /\ last.desc.n = 0

\* the local header of the entry the reader is at, parsed from the whole stream
EntryHeader == LocalFileHeader_parse(Drop(fx.bytes, parsedPos))

\* C38: read_headers only ever parses the local file header.  On a reader in any state
\* but Init it returns Done with the whole input as unparsed and leaves the reader as it
\* was.  On a reader in Init, at an entry with a valid local header, it does not touch
\* the inflater and returns either NeedsInput, the state still Init and all the bytes of
\* the header given so far kept in the reader, or Done, the state HeaderParsed and
\* unparsed the given bytes that follow the header.
C38_ReadHeadersOnlyParsesHeader ==
    last.op = "read_headers" =>
        IF last.before.state # "Init"
        THEN /\ last.tag = "Done"
             /\ last.unparsed_input = last.input
             /\ reader = last.before
        ELSE EntryHeader.res = "Ok" =>
                 /\ last.tag \in {"NeedsInput", "Done"}
                 /\ reader.inflater = last.before.inflater
                 /\ last.tag = "NeedsInput" =>
                        /\ reader.state = "Init"
                        /\ reader.unparsed = Slice(fx.bytes, parsedPos, fed)
                 /\ last.tag = "Done" =>
                        /\ reader.state = "HeaderParsed"
                        /\ last.unparsed_input
                               = Slice(fx.bytes, parsedPos + EntryHeader.n, fed)

\* more than StitchBudget bytes of a header that is not complete yet: NeedsInput
C38_Witness ==
    /\ last.op = "read_headers" /\ last.before.state = "Init" /\ EntryHeader.res = "Ok"
    /\ last.tag = "NeedsInput"
    /\ fed - parsedPos > StitchBudget
    /\ Len(reader.unparsed) = StitchBudget
====
